---- MODULE Spec2Model ----
(***************************************************************************)
(* Model of the AI workflow evaluator: the Episode entity (episode.py),    *)
(* the EpisodeEvaluator scoring engine (scoring.py) and the MetricsTracker *)
(* sink it drives (metrics.py).                                            *)
(*                                                                         *)
(* Scores are Python floats in the source; here they are exact rationals   *)
(* <<numerator, denominator>> in lowest terms, so equalities between       *)
(* scores are equalities of real numbers.                                  *)
(***************************************************************************)
EXTENDS Integers, Sequences, FiniteSets, TLC

VARIABLES
    episodes,   \* the caller's Episode variables: slot -> Episode object
    heap,       \* the metrics dict objects: reference -> [match, drift, coherence]
    now,        \* the clock read by datetime.utcnow()
    sink,       \* the state of the MetricsTracker: open runs and the calls it received
    last,       \* the operation that ran last and how it ended
    streak,     \* per slot: record_execution calls in a row since the episode was fresh
    scoreIn,    \* the arguments handed to a function of the arguments alone
    scoreOut,   \* the function applied to them last and its result
    mlflow      \* the mlflow library as evaluator.metrics sees it, and the tracker built on it

vars == <<episodes, heap, now, sink, last, streak, scoreIn, scoreOut, mlflow>>

(***************************************************************************)
(* Bounds of the model.                                                    *)
(***************************************************************************)
NumKeys == 2        \* a scored pair of mappings has at most this many keys each
MaxValues == 3      \* a mapping scored for coherence has at most this many values
MaxInt == 3         \* integer output values range over 0..MaxInt

(***************************************************************************)
(* Exact rational arithmetic for the float scores.                         *)
(***************************************************************************)
Abs(x) == IF x < 0 THEN -x ELSE x

RECURSIVE GCD(_, _)
GCD(a, b) == IF b = 0 THEN a ELSE GCD(b, a % b)

Rat(n, d) == LET g == GCD(Abs(n), d) IN <<n \div g, d \div g>>

Zero == <<0, 1>>
Half == <<1, 2>>
One == <<1, 1>>

RAdd(p, q) == Rat(p[1] * q[2] + q[1] * p[2], p[2] * q[2])
RSub(p, q) == Rat(p[1] * q[2] - q[1] * p[2], p[2] * q[2])
RMul(p, q) == Rat(p[1] * q[1], p[2] * q[2])
RLe(p, q) == p[1] * q[2] <= q[1] * p[2]
RLt(p, q) == p[1] * q[2] < q[1] * p[2]
RMin(p, q) == IF RLt(q, p) THEN q ELSE p
RMax(p, q) == IF RLt(p, q) THEN q ELSE p

(***************************************************************************)
(* Python values.  An output value is [type, v]: type is the value of      *)
(* type(x).__name__, v the number (or the index of the string).  None is a *)
(* value of type NoneType.  Floats are the integral floats 0.0, 1.0, ...   *)
(***************************************************************************)
PyInt(n) == [type |-> "int", v |-> n]
PyFloat(n) == [type |-> "float", v |-> n]
PyStr(n) == [type |-> "str", v |-> n]
NoneValue == [type |-> "NoneType", v |-> 0]

\* float("inf"): the other floats of the model are not negative, and v = -1
\* stands for infinity; inf == inf holds and inf equals no other number
PyInf == [type |-> "float", v |-> -1]
IsInf(x) == x = PyInf

Values == {NoneValue, PyFloat(1), PyStr(1)} \cup {PyInt(n) : n \in 0..MaxInt}

\* isinstance(x, (int, float))
IsNumeric(x) == x.type \in {"int", "float", "bool"}

\* x == y on Python values: numbers compare by value across int and float
PyEq(x, y) == IF IsNumeric(x) /\ IsNumeric(y) THEN x.v = y.v ELSE x = y

KeyOrder == <<"a", "b", "c", "d">>
Keys == {KeyOrder[i] : i \in 1..NumKeys}

\* the dict objects with keys among ks and values among Values
MappingsOver(ks) == UNION {[d -> Values] : d \in SUBSET ks}
Mappings == MappingsOver(Keys)

\* An argument of the evaluator: a dict, or None where a dict was expected
Dict(m) == [kind |-> "dict", items |-> m]
PyNone == [kind |-> "None", items |-> <<>>]
Outputs == {Dict(m) : m \in Mappings} \cup {PyNone}
CoherenceOutputs ==
    {Dict(m) : m \in MappingsOver({KeyOrder[i] : i \in 1..MaxValues})}
    \cup {PyNone}

\* bool(x): an empty dict and None are falsy
Truthy(x) == x.kind = "dict" /\ DOMAIN x.items # {}

\* x == y on dicts: the same keys with equal values
DictEq(x, y) ==
    /\ x.kind = y.kind
    /\ DOMAIN x.items = DOMAIN y.items
    /\ \A k \in DOMAIN x.items : PyEq(x.items[k], y.items[k])

RECURSIVE RSum(_, _)
RSum(f, S) == IF S = {} THEN Zero
              ELSE LET k == CHOOSE k \in S : TRUE
                   IN RAdd(f[k], RSum(f, S \ {k}))

\* statistics.mean over the values of a non-empty family f
RMeanOver(f, S) == RMul(RSum(f, S), Rat(1, Cardinality(S)))

(***************************************************************************)
(* EpisodeEvaluator._compute_match                                         *)
(***************************************************************************)
matching_keys(expected, actual) ==
    Cardinality({k \in DOMAIN expected.items :
                    k \in DOMAIN actual.items
                    /\ PyEq(expected.items[k], actual.items[k])})

\* total_keys taken as len(expected), the size of actual forgotten
total_keys_of_expected(expected, actual) ==
    Cardinality(DOMAIN expected.items)

total_keys(expected, actual) ==
    LET le == Cardinality(DOMAIN expected.items)
        la == Cardinality(DOMAIN actual.items)
    IN IF le >= la THEN le ELSE la

\* _compute_match with a partial match reported as a mismatch
_compute_match_binary(expected, actual) ==
    IF ~Truthy(expected) \/ ~Truthy(actual) THEN Half
    ELSE IF DictEq(expected, actual) THEN One
    ELSE IF matching_keys(expected, actual) = total_keys(expected, actual) THEN One
    ELSE Zero

_compute_match(expected, actual) ==
    IF ~Truthy(expected) \/ ~Truthy(actual) THEN Half
    ELSE IF DictEq(expected, actual) THEN One
    ELSE IF matching_keys(expected, actual) = 0 THEN Zero
    ELSE IF matching_keys(expected, actual) = total_keys(expected, actual) THEN One
    ELSE Half

(***************************************************************************)
(* EpisodeEvaluator._compute_drift                                         *)
(***************************************************************************)
\* `key not in actual` raises TypeError when actual is None
_compute_drift_raises(expected, actual) ==
    Truthy(expected) /\ actual.kind # "dict"

\* the per-key drift without the cap min(1.0, drift)
key_drift_uncapped(expected, actual, key) ==
    IF key \notin DOMAIN actual.items THEN One
    ELSE LET expected_val == expected.items[key]
             actual_val == actual.items[key]
         IN IF IsNumeric(expected_val) /\ IsNumeric(actual_val)
            THEN IF IsInf(expected_val) \/ IsInf(actual_val) THEN One
                 ELSE IF expected_val.v = 0
                 THEN (IF actual_val.v # 0 THEN One ELSE Zero)
                 ELSE Rat(Abs(actual_val.v - expected_val.v), Abs(expected_val.v))
            ELSE IF PyEq(expected_val, actual_val) THEN Zero
            ELSE One

\* the value appended to numeric_diffs for one key of expected
key_drift(expected, actual, key) ==
    IF key \notin DOMAIN actual.items THEN One
    ELSE LET expected_val == expected.items[key]
             actual_val == actual.items[key]
         IN IF IsNumeric(expected_val) /\ IsNumeric(actual_val)
            THEN IF IsInf(expected_val) \/ IsInf(actual_val)
                 THEN One   \* min(1.0, x) with x inf or nan (inf - inf, inf / inf)
                 ELSE IF expected_val.v = 0
                 THEN (IF actual_val.v # 0 THEN One ELSE Zero)
                 ELSE RMin(One, Rat(Abs(actual_val.v - expected_val.v),
                                    Abs(expected_val.v)))
            ELSE IF PyEq(expected_val, actual_val) THEN Zero
            ELSE One

_compute_drift(expected, actual) ==
    IF ~Truthy(expected) THEN Half
    ELSE LET numeric_diffs == [k \in DOMAIN expected.items |->
                                  key_drift(expected, actual, k)]
         IN RMeanOver(numeric_diffs, DOMAIN expected.items)

(***************************************************************************)
(* EpisodeEvaluator._compute_coherence                                     *)
(***************************************************************************)
non_null_keys(outputs) ==
    {k \in DOMAIN outputs.items : outputs.items[k] # NoneValue}

\* types.count(t) taken as len(types)
type_count_of_all(outputs, t) ==
    Cardinality(non_null_keys(outputs))

\* types.count(t)
type_count(outputs, t) ==
    Cardinality({k \in non_null_keys(outputs) : outputs.items[k].type = t})

\* min(set(types), key=types.count) in place of max: a least frequent type
least_common_types(outputs) ==
    LET types == {outputs.items[k].type : k \in non_null_keys(outputs)}
    IN IF types = {} THEN {"-"}
       ELSE {t \in types : \A u \in types :
                type_count(outputs, t) <= type_count(outputs, u)}

\* The values max(set(types), key=types.count) can return: iteration over a
\* set of strings has no fixed order, so any type of maximal count.
most_common_types(outputs) ==
    LET types == {outputs.items[k].type : k \in non_null_keys(outputs)}
    IN IF types = {} THEN {"-"}
       ELSE {t \in types : \A u \in types :
                type_count(outputs, u) <= type_count(outputs, t)}

_compute_coherence(outputs, most_common_type) ==
    IF ~Truthy(outputs) THEN Half
    ELSE LET len_values == Cardinality(DOMAIN outputs.items)
             non_null_count == Cardinality(non_null_keys(outputs))
             null_ratio == RSub(One, Rat(non_null_count, len_values))
             type_consistency ==
                 IF non_null_count > 0
                 THEN Rat(type_count(outputs, most_common_type), non_null_count)
                 ELSE Zero
             coherence == RAdd(RMul(RSub(One, null_ratio), Half),
                               RMul(type_consistency, Half))
         IN RMin(One, RMax(Zero, coherence))

(***************************************************************************)
(* Episode objects (episode.py).  The caller holds Episode objects in the  *)
(* variables Slots; an Episode refers to its metrics dict by reference, as *)
(* Python does, so that two Episodes can hold the same dict object.        *)
(***************************************************************************)
Slots == {1, 2}
Refs == Slots

MaxExec == 2        \* a metrics list holds at most this many scores
MaxNow == 2         \* the clock is read at the times 0..MaxNow
MaxOpenRuns == 1    \* at most this many tracking runs are left open

\* Optional[T]: <<>> is None, <<x>> is the value x
None == <<>>
Some(x) == <<x>>

EmptyMetrics == [match |-> <<>>, drift |-> <<>>, coherence |-> <<>>]

\* the metrics dict objects some Episode refers to
Referenced(eps) == {eps[s].metrics : s \in DOMAIN eps}

\* the reference of a newly allocated dict object
NewRef(eps) ==
    CHOOSE r \in Refs \ Referenced(eps) :
        \A q \in Refs \ Referenced(eps) : r <= q

\* dict objects no Episode refers to are freed
Collect(eps, hp) ==
    [r \in Refs |-> IF r \in Referenced(eps) THEN hp[r] ELSE EmptyMetrics]

Bind(eps, s, ep) ==
    [x \in DOMAIN eps \cup {s} |-> IF x = s THEN ep ELSE eps[x]]

Unbind(eps, s) == [x \in DOMAIN eps \ {s} |-> eps[x]]

DefaultTokenCounts == [input_tokens |-> 0, output_tokens |-> 0]

\* Episode.__init__ generating an identifier only for an absent episode_id
\* (episode_id is None for episode_id or ...)
EpisodeInit_id_if_absent(args, uuid, t, ref) ==
    [episode_id |-> IF args.episode_id = None THEN uuid ELSE args.episode_id[1],
     inputs |-> args.inputs,
     expected_outputs |-> args.expected_outputs,
     prompt |-> args.prompt,
     model_name |-> args.model_name,
     token_counts |-> IF args.token_counts = None
                         \/ DOMAIN args.token_counts[1] = {}
                      THEN DefaultTokenCounts ELSE args.token_counts[1],
     metadata |-> IF args.metadata = None THEN Dict(<<>>) ELSE args.metadata[1],
     created_at |-> t,
     metrics |-> ref,
     execution_count |-> 0,
     last_execution_at |-> None]

\* Episode.__init__: the object built from the arguments, a generated uuid,
\* the time read from the clock and the reference of its new metrics dict
EpisodeInit(args, uuid, t, ref) ==
    [episode_id |-> IF args.episode_id = None \/ args.episode_id = Some("")
                    THEN uuid ELSE args.episode_id[1],
     inputs |-> args.inputs,
     expected_outputs |-> args.expected_outputs,
     prompt |-> args.prompt,
     model_name |-> args.model_name,
     token_counts |-> IF args.token_counts = None
                         \/ DOMAIN args.token_counts[1] = {}
                      THEN DefaultTokenCounts ELSE args.token_counts[1],
     metadata |-> IF args.metadata = None THEN Dict(<<>>) ELSE args.metadata[1],
     created_at |-> t,
     metrics |-> ref,
     execution_count |-> 0,
     last_execution_at |-> None]

\* record_execution with the drift and coherence appends exchanged
AppendScoresSwapped(hp, ref, match_result, drift, coherence) ==
    [hp EXCEPT ![ref] = [match |-> Append(@.match, match_result),
                         drift |-> Append(@.drift, coherence),
                         coherence |-> Append(@.coherence, drift)]]

\* Episode.record_execution on the heap: one append to each of the three lists
AppendScores(hp, ref, match_result, drift, coherence) ==
    [hp EXCEPT ![ref] = [match |-> Append(@.match, match_result),
                         drift |-> Append(@.drift, drift),
                         coherence |-> Append(@.coherence, coherence)]]

\* record_execution without the increment of execution_count
RecordedUncounted(ep, t) ==
    [ep EXCEPT !.last_execution_at = Some(t)]

\* Episode.record_execution on the Episode object
Recorded(ep, t) ==
    [ep EXCEPT !.execution_count = @ + 1, !.last_execution_at = Some(t)]

\* The run of record_execution calls of each slot after a call on slot s:
\* it grows for s and is broken for every other Episode holding the same dict
StreakAfterRecord(eps, sk, s) ==
    [x \in Slots |->
        IF x = s THEN (IF sk[x] >= 0 THEN sk[x] + 1 ELSE -1)
        ELSE IF x \in DOMAIN eps /\ eps[x].metrics = eps[s].metrics THEN -1
        ELSE sk[x]]

\* Episode.to_dict: the mapping holds the metrics dict itself, not a copy
to_dict(ep) ==
    [episode_id |-> ep.episode_id,
     inputs |-> ep.inputs,
     expected_outputs |-> ep.expected_outputs,
     prompt |-> ep.prompt,
     model_name |-> ep.model_name,
     token_counts |-> ep.token_counts,
     metadata |-> ep.metadata,
     created_at |-> ep.created_at,
     metrics |-> [ref |-> ep.metrics],
     execution_count |-> ep.execution_count,
     last_execution_at |-> ep.last_execution_at]

\* data.get(key)
Get(data, key) == IF key \in DOMAIN data THEN Some(data[key]) ELSE None

\* data["inputs"], data["expected_outputs"], data["prompt"], data["model_name"]
\* raise KeyError when the key is missing
from_dict_raises(data) ==
    ~ ({"inputs", "expected_outputs", "prompt", "model_name"} \subseteq DOMAIN data)

\* from_dict not handing the mapping's metadata to the constructor
from_dict_dropping_metadata(data, dataRef, uuid, t, ref) ==
    LET episode == EpisodeInit(
                       [inputs |-> data.inputs,
                        expected_outputs |-> data.expected_outputs,
                        prompt |-> data.prompt,
                        model_name |-> data.model_name,
                        episode_id |-> Get(data, "episode_id"),
                        token_counts |-> Get(data, "token_counts"),
                        metadata |-> None],
                       uuid, t, ref)
    IN [episode EXCEPT
          !.metrics = IF "metrics" \in DOMAIN data THEN dataRef ELSE @,
          !.execution_count = IF "execution_count" \in DOMAIN data
                              THEN data.execution_count ELSE @,
          !.last_execution_at = IF "last_execution_at" \in DOMAIN data
                                THEN data.last_execution_at ELSE @]

\* Episode.from_dict: the Episode built from a mapping whose metrics entry, if
\* present, is the dict object at reference dataRef
from_dict(data, dataRef, uuid, t, ref) ==
    LET episode == EpisodeInit(
                       [inputs |-> data.inputs,
                        expected_outputs |-> data.expected_outputs,
                        prompt |-> data.prompt,
                        model_name |-> data.model_name,
                        episode_id |-> Get(data, "episode_id"),
                        token_counts |-> Get(data, "token_counts"),
                        metadata |-> Get(data, "metadata")],
                       uuid, t, ref)
    IN [episode EXCEPT
          !.metrics = IF "metrics" \in DOMAIN data THEN dataRef ELSE @,
          !.execution_count = IF "execution_count" \in DOMAIN data
                              THEN data.execution_count ELSE @,
          !.last_execution_at = IF "last_execution_at" \in DOMAIN data
                                THEN data.last_execution_at ELSE @]

(***************************************************************************)
(* MetricsTracker (metrics.py) over mlflow's stack of active runs.  A call *)
(* of the tracker can fail; fault names the call that raises.  calls holds *)
(* the tracker's calls of the operation under way, log holds them together *)
(* with the record_execution calls the evaluator made in between.          *)
(***************************************************************************)
Faults == {"none", "start_run", "set_tags", "log_evaluation_result",
           "log_batch_evaluation"}

\* the faults that leave the run opened by start_run open
LeakingFaults == {"set_tags", "log_evaluation_result"}

\* MetricsTracker.start_run: mlflow.start_run(nested=True) opens a run, then
\* mlflow.set_tags tags it; either can raise
start_run(snk, fault) ==
    [open |-> IF fault = "start_run" THEN snk.open ELSE snk.open + 1,
     calls |-> Append(snk.calls, "start_run"),
     log |-> Append(snk.log, "start_run")]

\* MetricsTracker.log_evaluation_result
log_evaluation_result(snk) ==
    [snk EXCEPT !.calls = Append(@, "log_evaluation_result"),
                !.log = Append(@, "log_evaluation_result")]

\* MetricsTracker.end_run: closes the innermost active run and never raises
end_run(snk) ==
    [open |-> IF snk.open > 0 THEN snk.open - 1 ELSE 0,
     calls |-> Append(snk.calls, "end_run"),
     log |-> Append(snk.log, "end_run")]

\* MetricsTracker.log_batch_evaluation
log_batch_evaluation(snk) ==
    [snk EXCEPT !.calls = Append(@, "log_batch_evaluation"),
                !.log = Append(@, "log_batch_evaluation")]

\* evaluate_episode with execution_count raised only after the tracker calls
evaluate_episode_counting_late(eps, hp, sk, snk, t, s, actual_outputs, most_common_type, fault) ==
    LET episode == eps[s]
        match_result == _compute_match(episode.expected_outputs, actual_outputs)
        drift == _compute_drift(episode.expected_outputs, actual_outputs)
        coherence == _compute_coherence(actual_outputs, most_common_type)
        appended == AppendScores(hp, episode.metrics, match_result, drift, coherence)
        started == start_run([snk EXCEPT !.log = Append(@, "record_execution")],
                             fault)
        logged == log_evaluation_result(started)
    IN IF _compute_drift_raises(episode.expected_outputs, actual_outputs)
       THEN [episodes |-> eps, heap |-> hp, streak |-> sk, sink |-> snk,
             error |-> "TypeError", ret |-> <<>>]
       ELSE IF fault \in {"start_run", "set_tags"}
       THEN [episodes |-> eps, heap |-> appended,
             streak |-> StreakAfterRecord(eps, sk, s), sink |-> started,
             error |-> "SinkError", ret |-> <<>>]
       ELSE IF fault = "log_evaluation_result"
       THEN [episodes |-> eps, heap |-> appended,
             streak |-> StreakAfterRecord(eps, sk, s), sink |-> logged,
             error |-> "SinkError", ret |-> <<>>]
       ELSE [episodes |-> [eps EXCEPT ![s] = Recorded(@, t)], heap |-> appended,
             streak |-> StreakAfterRecord(eps, sk, s), sink |-> end_run(logged),
             error |-> "none",
             ret |-> <<match_result, [drift |-> drift, coherence |-> coherence,
                                      match_result |-> match_result]>>]

\* evaluate_episode calling record_execution only after the tracker calls
evaluate_episode_recording_last(eps, hp, sk, snk, t, s, actual_outputs, most_common_type, fault) ==
    LET episode == eps[s]
        match_result == _compute_match(episode.expected_outputs, actual_outputs)
        drift == _compute_drift(episode.expected_outputs, actual_outputs)
        coherence == _compute_coherence(actual_outputs, most_common_type)
        started == start_run(snk, fault)
        logged == log_evaluation_result(started)
    IN IF _compute_drift_raises(episode.expected_outputs, actual_outputs)
       THEN [episodes |-> eps, heap |-> hp, streak |-> sk, sink |-> snk,
             error |-> "TypeError", ret |-> <<>>]
       ELSE IF fault \in {"start_run", "set_tags"}
       THEN [episodes |-> eps, heap |-> hp, streak |-> sk, sink |-> started,
             error |-> "SinkError", ret |-> <<>>]
       ELSE IF fault = "log_evaluation_result"
       THEN [episodes |-> eps, heap |-> hp, streak |-> sk, sink |-> logged,
             error |-> "SinkError", ret |-> <<>>]
       ELSE [episodes |-> [eps EXCEPT ![s] = Recorded(@, t)],
             heap |-> AppendScores(hp, episode.metrics,
                                   match_result, drift, coherence),
             streak |-> StreakAfterRecord(eps, sk, s),
             sink |-> [end_run(logged) EXCEPT
                          !.log = Append(@, "record_execution")],
             error |-> "none",
             ret |-> <<match_result, [drift |-> drift, coherence |-> coherence,
                                      match_result |-> match_result]>>]

(***************************************************************************)
(* EpisodeEvaluator.evaluate_episode as a function of the program state:   *)
(* the state it leaves, whether it raised and what it returned.            *)
(***************************************************************************)
evaluate_episode(eps, hp, sk, snk, t, s, actual_outputs, most_common_type, fault) ==
    LET episode == eps[s]
        match_result == _compute_match(episode.expected_outputs, actual_outputs)
        drift == _compute_drift(episode.expected_outputs, actual_outputs)
        coherence == _compute_coherence(actual_outputs, most_common_type)
        recorded == [episodes |-> [eps EXCEPT ![s] = Recorded(@, t)],
                     heap |-> AppendScores(hp, episode.metrics,
                                           match_result, drift, coherence),
                     streak |-> StreakAfterRecord(eps, sk, s)]
        started == start_run([snk EXCEPT !.log = Append(@, "record_execution")],
                             fault)
        logged == log_evaluation_result(started)
    IN IF _compute_drift_raises(episode.expected_outputs, actual_outputs)
       THEN [episodes |-> eps, heap |-> hp, streak |-> sk, sink |-> snk,
             error |-> "TypeError", ret |-> <<>>]
       ELSE IF fault \in {"start_run", "set_tags"}
       THEN [episodes |-> recorded.episodes, heap |-> recorded.heap,
             streak |-> recorded.streak, sink |-> started,
             error |-> "SinkError", ret |-> <<>>]
       ELSE IF fault = "log_evaluation_result"
       THEN [episodes |-> recorded.episodes, heap |-> recorded.heap,
             streak |-> recorded.streak, sink |-> logged,
             error |-> "SinkError", ret |-> <<>>]
       ELSE [episodes |-> recorded.episodes, heap |-> recorded.heap,
             streak |-> recorded.streak, sink |-> end_run(logged),
             error |-> "none",
             ret |-> <<match_result, [drift |-> drift, coherence |-> coherence,
                                      match_result |-> match_result]>>]

(***************************************************************************)
(* EpisodeEvaluator.evaluate_batch.  The fault, if any, hits the sink      *)
(* calls of pair faultAt, or log_batch_evaluation when faultAt is past the *)
(* last pair.  An exception of evaluate_episode leaves the loop at once.   *)
(***************************************************************************)
MaxBatch == 2       \* a batch holds at most this many pairs

\* the loop body putting each result at the front of batch_results
batch_step_prepending(w, r, s) ==
    IF r.error # "none"
    THEN [episodes |-> r.episodes, heap |-> r.heap, streak |-> r.streak,
          sink |-> r.sink, error |-> r.error,
          batch_results |-> w.batch_results,
          total_tokens |-> w.total_tokens]
    ELSE LET episode == r.episodes[s]
         IN [episodes |-> r.episodes, heap |-> r.heap, streak |-> r.streak,
             sink |-> r.sink, error |-> "none",
             batch_results |-> <<[episode_id |-> episode.episode_id,
                                  match_result |-> r.ret[1],
                                  metrics |-> r.ret[2]]>> \o w.batch_results,
             total_tokens |-> w.total_tokens
                 + (IF "input_tokens" \in DOMAIN episode.token_counts
                    THEN episode.token_counts.input_tokens ELSE 0)
                 + (IF "output_tokens" \in DOMAIN episode.token_counts
                    THEN episode.token_counts.output_tokens ELSE 0)]

\* the loop's state after a pair whose evaluate_episode ended as r
batch_step(w, r, s) ==
    IF r.error # "none"
    THEN [episodes |-> r.episodes, heap |-> r.heap, streak |-> r.streak,
          sink |-> r.sink, error |-> r.error,
          batch_results |-> w.batch_results,
          total_tokens |-> w.total_tokens]
    ELSE LET episode == r.episodes[s]
         IN [episodes |-> r.episodes, heap |-> r.heap, streak |-> r.streak,
             sink |-> r.sink, error |-> "none",
             batch_results |-> Append(w.batch_results,
                 [episode_id |-> episode.episode_id,
                  match_result |-> r.ret[1],
                  metrics |-> r.ret[2]]),
             total_tokens |-> w.total_tokens
                 + (IF "input_tokens" \in DOMAIN episode.token_counts
                    THEN episode.token_counts.input_tokens ELSE 0)
                 + (IF "output_tokens" \in DOMAIN episode.token_counts
                    THEN episode.token_counts.output_tokens ELSE 0)]

\* the loop over the pairs from pair i on (each intermediate state is
\* computed once: CHOOSE over a singleton binds it to its value)
RECURSIVE batch_loop(_, _, _, _, _, _, _)
batch_loop(w, t, episodes_with_outputs, mcts, faultAt, fault, i) ==
    IF i > Len(episodes_with_outputs) \/ w.error # "none" THEN w
    ELSE LET s == episodes_with_outputs[i][1]
             actual_outputs == episodes_with_outputs[i][2]
         IN CHOOSE out \in
              {batch_loop(w2, t, episodes_with_outputs, mcts, faultAt, fault, i + 1) :
                 w2 \in {batch_step(w, r, s) :
                    r \in {evaluate_episode(w.episodes, w.heap, w.streak, w.sink,
                                            t, s, actual_outputs, mcts[i],
                                            IF i = faultAt THEN fault ELSE "none")}}} :
              TRUE

\* the summary with every match result above 0.0 counted as a match
batch_summary_lenient(batch_results, total_tokens) ==
    LET n == Len(batch_results)
    IN [avg_drift |-> RMeanOver([i \in 1..n |-> batch_results[i].metrics.drift], 1..n),
        avg_coherence |->
            RMeanOver([i \in 1..n |-> batch_results[i].metrics.coherence], 1..n),
        idempotency_rate |->
            Rat(Cardinality({i \in 1..n : batch_results[i].match_result # Zero}), n),
        total_tokens |-> total_tokens]

\* the summary entry of the result (the two standard deviations are left out)
batch_summary(batch_results, total_tokens) ==
    LET n == Len(batch_results)
    IN [avg_drift |-> RMeanOver([i \in 1..n |-> batch_results[i].metrics.drift], 1..n),
        avg_coherence |->
            RMeanOver([i \in 1..n |-> batch_results[i].metrics.coherence], 1..n),
        idempotency_rate |->
            Rat(Cardinality({i \in 1..n : batch_results[i].match_result = One}), n),
        total_tokens |-> total_tokens]

evaluate_batch(eps, hp, sk, snk, t, episodes_with_outputs, batch_id, mcts, faultAt, fault) ==
    IF episodes_with_outputs = <<>>
    THEN [episodes |-> eps, heap |-> hp, streak |-> sk, sink |-> snk,
          error |-> "none",
          ret |-> [batch_id |-> batch_id, episodes_count |-> 0,
                   results |-> <<>>]]
    ELSE LET w == CHOOSE out \in
                      {batch_loop([episodes |-> eps, heap |-> hp, streak |-> sk,
                                   sink |-> snk, error |-> "none",
                                   batch_results |-> <<>>, total_tokens |-> 0],
                                  t, episodes_with_outputs, mcts,
                                  faultAt, fault, 1)} : TRUE
         IN IF w.error # "none"
            THEN [episodes |-> w.episodes, heap |-> w.heap, streak |-> w.streak,
                  sink |-> w.sink, error |-> w.error, ret |-> <<>>]
            ELSE [episodes |-> w.episodes, heap |-> w.heap, streak |-> w.streak,
                  sink |-> log_batch_evaluation(w.sink),
                  error |-> IF fault = "log_batch_evaluation"
                            THEN "SinkError" ELSE "none",
                  ret |-> IF fault = "log_batch_evaluation" THEN <<>>
                          ELSE [batch_id |-> batch_id,
                                episodes_count |-> Len(episodes_with_outputs),
                                results |-> w.batch_results,
                                summary |-> batch_summary(w.batch_results,
                                                          w.total_tokens)]]

(***************************************************************************)
(* validate_episode (invariants.py).  The attributes of an Episode can     *)
(* hold any value; a string is the sequence of its characters.  A check    *)
(* yields None, or the message of the InvalidEpisodeError it raises.       *)
(***************************************************************************)
Str(chars) == [type |-> "str", chars |-> chars]
NoStr(type) == [type |-> type, chars |-> <<>>]

\* s.strip(): leading and trailing blanks removed
RECURSIVE strip(_)
strip(chars) ==
    IF chars = <<>> THEN <<>>
    ELSE IF Head(chars) = " " THEN strip(Tail(chars))
    ELSE IF chars[Len(chars)] = " " THEN strip(SubSeq(chars, 1, Len(chars) - 1))
    ELSE chars

\* the message of an InvalidEpisodeError; key is the key of token_counts the
\* message names, if it names one
Reason(message, key) == [message |-> message, key |-> key]

_validate_episode_id(episode_id) ==
    IF episode_id.type # "str" \/ strip(episode_id.chars) = <<>>
    THEN Some(Reason("episode_id must be a non-empty string", ""))
    ELSE None

_validate_inputs(inputs) ==
    IF inputs.kind # "dict"
    THEN Some(Reason("inputs must be a dictionary", ""))
    ELSE IF Cardinality(DOMAIN inputs.items) = 0
    THEN Some(Reason("inputs cannot be empty", ""))
    ELSE None

_validate_outputs(outputs) ==
    IF outputs.kind # "dict"
    THEN Some(Reason("expected_outputs must be a dictionary", ""))
    ELSE IF Cardinality(DOMAIN outputs.items) = 0
    THEN Some(Reason("expected_outputs cannot be empty", ""))
    ELSE None

_validate_prompt(prompt) ==
    IF prompt.type # "str" \/ strip(prompt.chars) = <<>>
    THEN Some(Reason("prompt must be a non-empty string", ""))
    ELSE None

_validate_model_name(model_name) ==
    IF model_name.type # "str" \/ strip(model_name.chars) = <<>>
    THEN Some(Reason("model_name must be a non-empty string", ""))
    ELSE None

\* isinstance(value, int): bool is a subclass of int
IsInt(value) == value.type \in {"int", "bool"}

\* the keys of token_counts whose value the loop rejects
rejected_keys(token_counts) ==
    {key \in DOMAIN token_counts.items :
        ~IsInt(token_counts.items[key]) \/ token_counts.items[key].v < 0}

\* _validate_token_counts with `and` for `or` in the test of the two keys
_validate_token_counts_either_key(token_counts, key) ==
    IF token_counts.kind # "dict"
    THEN Some(Reason("token_counts must be a dictionary", ""))
    ELSE IF "input_tokens" \notin DOMAIN token_counts.items
            /\ "output_tokens" \notin DOMAIN token_counts.items
    THEN Some(Reason("token_counts must contain 'input_tokens' and 'output_tokens'", ""))
    ELSE IF rejected_keys(token_counts) # {}
    THEN Some(Reason("token_counts[key] must be a non-negative integer", key))
    ELSE None

\* _validate_token_counts; key is the first rejected key in the order of
\* token_counts.items(), when there is one
_validate_token_counts(token_counts, key) ==
    IF token_counts.kind # "dict"
    THEN Some(Reason("token_counts must be a dictionary", ""))
    ELSE IF "input_tokens" \notin DOMAIN token_counts.items
            \/ "output_tokens" \notin DOMAIN token_counts.items
    THEN Some(Reason("token_counts must contain 'input_tokens' and 'output_tokens'", ""))
    ELSE IF rejected_keys(token_counts) # {}
    THEN Some(Reason("token_counts[key] must be a non-negative integer", key))
    ELSE None

\* the first message among the results of the checks, None if there is none
RECURSIVE first_raised(_)
first_raised(checks) ==
    IF checks = <<>> THEN None
    ELSE IF Head(checks) # None THEN Head(checks)
    ELSE first_raised(Tail(checks))

\* validate_episode with the prompt checked before the inputs
validate_episode_prompt_first(episode, key) ==
    first_raised(<<_validate_episode_id(episode.episode_id),
                   _validate_prompt(episode.prompt),
                   _validate_inputs(episode.inputs),
                   _validate_outputs(episode.expected_outputs),
                   _validate_model_name(episode.model_name),
                   _validate_token_counts(episode.token_counts, key)>>)

\* validate_episode: None when it returns True, else the message raised
validate_episode(episode, key) ==
    first_raised(<<_validate_episode_id(episode.episode_id),
                   _validate_inputs(episode.inputs),
                   _validate_outputs(episode.expected_outputs),
                   _validate_prompt(episode.prompt),
                   _validate_model_name(episode.model_name),
                   _validate_token_counts(episode.token_counts, key)>>)

(***************************************************************************)
(* The population assertions (invariants.py) over a list of Episodes, given *)
(* as the list of the caller's variables holding them.  Each yields the    *)
(* exception it raises ("none" if it returns True) and the exception's     *)
(* message.                                                                *)
(***************************************************************************)
MaxEpisodes == 2    \* a list handed to an assertion holds at most this many Episodes

Raised(error, message) == [error |-> error, message |-> message]
ReturnedTrue == [error |-> "none", message |-> ""]

\* the list field of every Episode of the list, one after the other
RECURSIVE extend_all(_, _, _, _)
extend_all(eps, hp, episode_list, field) ==
    IF episode_list = <<>> THEN <<>>
    ELSE hp[eps[Head(episode_list)].metrics][field]
         \o extend_all(eps, hp, Tail(episode_list), field)

\* statistics.mean of a non-empty list of scores
mean(scores) == RMeanOver(scores, 1..Len(scores))

\* assert_idempotent without the test of total_executions == 0
assert_idempotent_unguarded(eps, hp, episode_list, threshold) ==
    IF episode_list = <<>>
    THEN Raised("AssertionError", "Cannot assert idempotency on empty episode list")
    ELSE LET all_matches == extend_all(eps, hp, episode_list, "match")
             total_matches ==
                 Cardinality({i \in 1..Len(all_matches) : all_matches[i] = One})
             total_executions == Len(all_matches)
         IN IF total_executions = 0
            THEN Raised("ZeroDivisionError", "division by zero")
            ELSE IF RLe(threshold, Rat(total_matches, total_executions))
            THEN ReturnedTrue
            ELSE Raised("AssertionError", "Idempotency rate below threshold")

\* assert_idempotent with a strict comparison against the threshold
assert_idempotent_strict(eps, hp, episode_list, threshold) ==
    IF episode_list = <<>>
    THEN Raised("AssertionError", "Cannot assert idempotency on empty episode list")
    ELSE LET all_matches == extend_all(eps, hp, episode_list, "match")
             total_matches ==
                 Cardinality({i \in 1..Len(all_matches) : all_matches[i] = One})
             total_executions == Len(all_matches)
         IN IF total_executions = 0
            THEN Raised("AssertionError", "No executions recorded for episodes")
            ELSE IF RLt(threshold, Rat(total_matches, total_executions))
            THEN ReturnedTrue
            ELSE Raised("AssertionError", "Idempotency rate below threshold")

\* assert_idempotent: an Episode without match scores adds nothing to either
\* total, so the totals are those of all match scores of the list
assert_idempotent(eps, hp, episode_list, threshold) ==
    IF episode_list = <<>>
    THEN Raised("AssertionError", "Cannot assert idempotency on empty episode list")
    ELSE LET all_matches == extend_all(eps, hp, episode_list, "match")
             total_matches ==
                 Cardinality({i \in 1..Len(all_matches) : all_matches[i] = One})
             total_executions == Len(all_matches)
         IN IF total_executions = 0
            THEN Raised("AssertionError", "No executions recorded for episodes")
            ELSE IF RLe(threshold, Rat(total_matches, total_executions))
            THEN ReturnedTrue
            ELSE Raised("AssertionError", "Idempotency rate below threshold")

\* the mean of the means of the Episodes that hold a score
mean_of_means(eps, hp, episode_list, field) ==
    LET holding == SelectSeq(episode_list,
                             LAMBDA s : hp[eps[s].metrics][field] # <<>>)
    IN mean([i \in 1..Len(holding) |-> mean(hp[eps[holding[i]].metrics][field])])

\* assert_low_drift averaging the Episodes' own averages
assert_low_drift_per_episode(eps, hp, episode_list, max_drift) ==
    IF episode_list = <<>>
    THEN Raised("AssertionError", "Cannot assert drift on empty episode list")
    ELSE LET all_drifts == extend_all(eps, hp, episode_list, "drift")
         IN IF all_drifts = <<>>
            THEN Raised("AssertionError", "No drift metrics recorded for episodes")
            ELSE IF RLe(mean_of_means(eps, hp, episode_list, "drift"), max_drift)
            THEN ReturnedTrue
            ELSE Raised("AssertionError", "Average drift exceeds threshold")

assert_low_drift(eps, hp, episode_list, max_drift) ==
    IF episode_list = <<>>
    THEN Raised("AssertionError", "Cannot assert drift on empty episode list")
    ELSE LET all_drifts == extend_all(eps, hp, episode_list, "drift")
         IN IF all_drifts = <<>>
            THEN Raised("AssertionError", "No drift metrics recorded for episodes")
            ELSE IF RLe(mean(all_drifts), max_drift)
            THEN ReturnedTrue
            ELSE Raised("AssertionError", "Average drift exceeds threshold")

assert_high_coherence(eps, hp, episode_list, min_coherence) ==
    IF episode_list = <<>>
    THEN Raised("AssertionError", "Cannot assert coherence on empty episode list")
    ELSE LET all_coherences == extend_all(eps, hp, episode_list, "coherence")
         IN IF all_coherences = <<>>
            THEN Raised("AssertionError", "No coherence metrics recorded for episodes")
            ELSE IF RLe(min_coherence, mean(all_coherences))
            THEN ReturnedTrue
            ELSE Raised("AssertionError", "Average coherence below threshold")

(***************************************************************************)
(* Submission payloads (submission.py).  A payload is a dict whose         *)
(* "episodes" entry is a list of items, or a value of another shape; an    *)
(* item is a dict with an "episode" and an "actual_outputs" entry, or a    *)
(* value that is no dict.  item.get(key) of a missing key is None.         *)
(***************************************************************************)
MaxItems == 3       \* a payload's episodes list holds at most this many items

\* a value that is no mapping where a mapping is expected (the string "bad")
NoMapping == [kind |-> "str", items |-> <<>>]

\* an "episode" entry: the mapping data, None, or a value that is no mapping
EpisodeDict(data) == [kind |-> "dict", data |-> data]
NoEpisodeDict(kind) == [kind |-> kind, data |-> <<>>]

\* the loop leaving at the first item it cannot use (break for continue)
RECURSIVE parse_loop_breaking(_, _, _, _)
parse_loop_breaking(items, i, pairs, t) ==
    IF i > Len(items) THEN pairs
    ELSE LET item == items[i]
         IN IF item.kind # "dict" THEN pairs
            ELSE LET ep_dict == item.episode
                     actual == item.actual_outputs
                 IN IF ep_dict.kind # "dict" \/ actual.kind # "dict"
                    THEN pairs
                    ELSE IF from_dict_raises(ep_dict.data)
                    THEN pairs
                    ELSE parse_loop_breaking(items, i + 1,
                             Append(pairs,
                                 [episode |-> from_dict(ep_dict.data, Len(pairs) + 1,
                                                        "uuid-1", t, Len(pairs) + 1),
                                  metrics |-> IF "metrics" \in DOMAIN ep_dict.data
                                              THEN ep_dict.data.metrics
                                              ELSE EmptyMetrics,
                                  actual_outputs |-> actual]),
                             t)

\* the loop of parse_submission_payload from item i on; the Episode of the
\* n-th pair is a new object whose metrics dict is object n
RECURSIVE parse_loop(_, _, _, _)
parse_loop(items, i, pairs, t) ==
    IF i > Len(items) THEN pairs
    ELSE LET item == items[i]
         IN IF item.kind # "dict" THEN parse_loop(items, i + 1, pairs, t)
            ELSE LET ep_dict == item.episode
                     actual == item.actual_outputs
                 IN IF ep_dict.kind # "dict" \/ actual.kind # "dict"
                    THEN parse_loop(items, i + 1, pairs, t)
                    ELSE IF from_dict_raises(ep_dict.data)
                    THEN parse_loop(items, i + 1, pairs, t)
                    ELSE parse_loop(items, i + 1,
                             Append(pairs,
                                 [episode |-> from_dict(ep_dict.data, Len(pairs) + 1,
                                                        "uuid-1", t, Len(pairs) + 1),
                                  metrics |-> IF "metrics" \in DOMAIN ep_dict.data
                                              THEN ep_dict.data.metrics
                                              ELSE EmptyMetrics,
                                  actual_outputs |-> actual]),
                             t)

\* parse_submission_payload returning the empty list of pairs it is left with
parse_submission_payload_allowing_empty(payload, t) ==
    IF payload.kind # "dict"
    THEN [error |-> "InvalidSubmissionPayload", pairs |-> <<>>]
    ELSE IF payload.episodes.kind # "list"
    THEN [error |-> "InvalidSubmissionPayload", pairs |-> <<>>]
    ELSE [error |-> "none", pairs |-> parse_loop(payload.episodes.items, 1, <<>>, t)]

\* parse_submission_payload: the pairs, or InvalidSubmissionPayload
parse_submission_payload(payload, t) ==
    IF payload.kind # "dict"
    THEN [error |-> "InvalidSubmissionPayload", pairs |-> <<>>]
    ELSE IF payload.episodes.kind # "list"
    THEN [error |-> "InvalidSubmissionPayload", pairs |-> <<>>]
    ELSE LET pairs == parse_loop(payload.episodes.items, 1, <<>>, t)
         IN IF pairs = <<>>
            THEN [error |-> "InvalidSubmissionPayload", pairs |-> <<>>]
            ELSE [error |-> "none", pairs |-> pairs]

\* evaluate_submission_payload with batch_id left None, over a tracker that
\* does not fail: the parsed Episodes are objects of the call's own
evaluate_submission_payload(payload, snk, t, mcts) ==
    LET parsed == parse_submission_payload(payload, t)
        pairs == parsed.pairs
        n == Len(pairs)
    IN IF parsed.error # "none"
       THEN [sink |-> snk, error |-> parsed.error, ret |-> <<>>, pairs |-> <<>>]
       ELSE LET r == evaluate_batch(
                        [i \in 1..n |-> pairs[i].episode],
                        [i \in 1..n |-> pairs[i].metrics],
                        [s \in Slots |-> -1], snk, t,
                        [i \in 1..n |-> <<i, pairs[i].actual_outputs>>],
                        IF payload.batch_id # None THEN payload.batch_id[1]
                        ELSE "batch_001",
                        mcts, 0, "none")
            IN [sink |-> r.sink, error |-> r.error, ret |-> r.ret,
                pairs |-> [i \in 1..n |->
                             [episode |-> r.episodes[i], metrics |-> r.heap[i],
                              actual_outputs |-> pairs[i].actual_outputs]]]

(***************************************************************************)
(* The arguments the operations are called with.                           *)
(***************************************************************************)
ExpectedA == Dict("a" :> PyInt(1))
ExpectedAB == Dict(("a" :> PyInt(1)) @@ ("b" :> PyInt(2)))

\* the arguments of the constructor calls: those of ep1 and ep2
EpisodeArgs ==
    <<[inputs |-> Dict("a" :> PyStr(1)), expected_outputs |-> ExpectedA,
       prompt |-> "p", model_name |-> "m", episode_id |-> None,
       token_counts |-> None, metadata |-> None],
      [inputs |-> Dict("a" :> PyInt(1)), expected_outputs |-> ExpectedAB,
       prompt |-> "p", model_name |-> "m", episode_id |-> Some("ep-1"),
       token_counts |-> Some([input_tokens |-> 12, output_tokens |-> 3]),
       metadata |-> Some(Dict("a" :> PyInt(1)))]>>

CtorArgs == {EpisodeArgs[i] : i \in DOMAIN EpisodeArgs}

\* those, and a call with an empty episode_id, prompt and model_name
AnyCtorArgs ==
    CtorArgs \cup
    {[inputs |-> Dict("a" :> PyStr(1)), expected_outputs |-> ExpectedA,
      prompt |-> "", model_name |-> "", episode_id |-> Some(""),
      token_counts |-> None, metadata |-> Some(Dict(<<>>))]}

\* the values of str(uuid.uuid4())
Uuids == {"uuid-1"}

\* the arguments of MetricsTracker and of its start_run, and the ids mlflow
\* gives to runs
ExperimentNames == {"episode_evaluation", "exp"}
TrackedEpisodeIds == {"ep1", "ep2"}
TagSamples == {None, Some("model" :> "m"), Some("episode_id" :> "other")}
RunIds == {"rid-1", "rid-2"}

\* the score triples record_execution is called with directly
ExecSamples == {<<One, Zero, One>>, <<Half, <<1, 5>>, <<4, 5>>>>}

\* the outputs of the Episodes scored once and for all: mappings over two
\* keys with an int, a float, a string, None and an infinite float as values
ScoredValues == {PyInt(0), PyInt(1), PyFloat(1), PyStr(1), NoneValue, PyInf}
ScoredOutputs == {Dict(m) : m \in UNION {[d -> ScoredValues] : d \in SUBSET {"a", "b"}}}

\* the actual outputs handed to the evaluator
ActualSamples ==
    {Dict("a" :> PyInt(1)),
     PyNone}

\* payload mappings handed to Episode.from_dict: the metrics entry is a dict
\* object of the payload's own
PayloadSamples ==
    {[inputs |-> Dict("a" :> PyStr(1)), expected_outputs |-> ExpectedA,
      prompt |-> "p", model_name |-> "m"],
     [inputs |-> Dict("a" :> PyStr(1)), expected_outputs |-> ExpectedA,
      prompt |-> "p", model_name |-> "m",
      metrics |-> [match |-> <<One>>, drift |-> <<Zero>>, coherence |-> <<One>>],
      execution_count |-> 1, last_execution_at |-> Some(0)],
     [inputs |-> Dict("a" :> PyStr(1)), expected_outputs |-> ExpectedA,
      prompt |-> "p", model_name |-> "m",
      metrics |-> [match |-> <<One>>, drift |-> <<>>, coherence |-> <<>>]],
     [inputs |-> Dict("a" :> PyStr(1)), expected_outputs |-> ExpectedA,
      model_name |-> "m"]}

BatchIds == {"b"}

\* the thresholds the assertions are called with; the first of each is the
\* default of the parameter
Thresholds == {<<9, 10>>, Half}
MaxDrifts == {<<1, 10>>, <<1, 5>>}
MinCoherences == {<<4, 5>>, <<9, 10>>}

\* a token_counts dict
Tokens(items) == [kind |-> "dict", items |-> items]

\* the Episodes handed to validate_episode: every attribute ranges over
\* values that pass its check and values that fail it
ValidationSamples ==
    [episode_id : {Str(<<"e">>), Str(<<>>), Str(<<" ">>), NoStr("int")},
     inputs : {Dict("a" :> PyInt(1)), Dict(<<>>), PyNone},
     expected_outputs : {Dict("b" :> PyInt(2)), Dict(<<>>), PyNone},
     prompt : {Str(<<"p">>), Str(<<" ", "p", " ">>), Str(<<" ", " ">>), NoStr("NoneType")},
     model_name : {Str(<<"m">>), Str(<<>>)},
     token_counts :
        {Tokens(("input_tokens" :> PyInt(0)) @@ ("output_tokens" :> PyInt(0))),
         Tokens(("input_tokens" :> PyInt(12)) @@ ("output_tokens" :> PyInt(3))
                @@ ("x" :> PyInt(5))),
         Tokens(("input_tokens" :> [type |-> "bool", v |-> 1])
                @@ ("output_tokens" :> PyInt(0))),
         Tokens(<<>>),
         Tokens("input_tokens" :> PyInt(1)),
         Tokens(("input_tokens" :> PyInt(-1)) @@ ("output_tokens" :> PyInt(0))),
         Tokens(("input_tokens" :> PyInt(-1)) @@ ("output_tokens" :> PyStr(1))),
         Tokens(("input_tokens" :> PyFloat(1)) @@ ("output_tokens" :> PyInt(0))),
         Tokens(("input_tokens" :> PyInt(1)) @@ ("output_tokens" :> PyInt(2))
                @@ ("x" :> PyInt(-1))),
         [kind |-> "None", items |-> <<>>]}]

\* the mapping an "episode" entry holds: Episode.to_dict() without metrics
SubmittedEpisode(episode_id, expected_outputs, input_tokens, output_tokens) ==
    [episode_id |-> episode_id,
     inputs |-> Dict("a" :> PyStr(1)),
     expected_outputs |-> expected_outputs,
     prompt |-> "p",
     model_name |-> "m",
     token_counts |-> [input_tokens |-> input_tokens, output_tokens |-> output_tokens]]

\* an item of a payload's episodes list
Item(episode, actual_outputs) ==
    [kind |-> "dict", episode |-> episode, actual_outputs |-> actual_outputs]

\* the items of submitted payloads: three that parse (scored as a match, a
\* mismatch and a partial match), one whose episode is no mapping, one whose
\* episode lacks "prompt", one without actual_outputs, one whose episode has
\* the four required keys with empty inputs and an empty prompt, one that is
\* no dict
ItemSamples ==
    {Item(EpisodeDict(SubmittedEpisode("ep-1", ExpectedA, 12, 3)),
          Dict("a" :> PyInt(1))),
     Item(EpisodeDict(SubmittedEpisode("ep-2", ExpectedA, 1, 2)),
          Dict("a" :> PyInt(0))),
     Item(EpisodeDict(SubmittedEpisode("ep-3", ExpectedAB, 0, 0)),
          Dict("a" :> PyInt(1))),
     Item(NoEpisodeDict("str"), Dict(<<>>)),
     Item(EpisodeDict([episode_id |-> "ep-4", inputs |-> Dict("a" :> PyStr(1)),
                       expected_outputs |-> ExpectedA, model_name |-> "m"]),
          Dict("a" :> PyInt(1))),
     Item(EpisodeDict(SubmittedEpisode("ep-5", ExpectedA, 0, 0)), PyNone),
     Item(EpisodeDict([SubmittedEpisode("ep-6", ExpectedA, 0, 0)
                          EXCEPT !.inputs = Dict(<<>>), !.prompt = ""]),
          Dict("a" :> PyInt(1))),
     [kind |-> "str", episode |-> NoEpisodeDict("None"), actual_outputs |-> PyNone]}

\* the payloads: a list in place of a dict, an "episodes" entry that is no
\* list, and the dicts with a list of at most MaxItems items
SubmissionSamples ==
    {[kind |-> "list", batch_id |-> None,
      episodes |-> [kind |-> "None", items |-> <<>>]],
     [kind |-> "dict", batch_id |-> None,
      episodes |-> [kind |-> "str", items |-> <<>>]]}
    \cup {[kind |-> "dict", batch_id |-> b, episodes |-> [kind |-> "list", items |-> items]] :
             b \in {None, Some("b")},
             items \in UNION {[1..n -> ItemSamples] : n \in 0..MaxItems}}

(***************************************************************************)
(* evaluator.metrics and the mlflow library (metrics.py 1-58).  The module *)
(* imports mlflow and mlflow.entities when it is loaded and keeps the      *)
(* module object it found; MetricsTracker calls that object.               *)
(***************************************************************************)
MaxTrackers == 2    \* mlflow.set_experiment is called at most this many times

\* evaluator.metrics loaded with mlflow installed and the tracker of
\* EpisodeEvaluator() constructed: MetricsTracker() with the default name
DefaultTracker ==
    [installed |-> TRUE, entities |-> TRUE, loaded |-> TRUE,
     experiments |-> <<"episode_evaluation">>, runs |-> <<>>,
     tracker |-> Some("episode_evaluation")]

\* the statements `import mlflow` and `import mlflow.entities` at the top of
\* metrics.py: the exception they raise, "none" if both succeed
import_mlflow(ml) ==
    IF ml.installed /\ ml.entities THEN "none" ELSE "ImportError"

\* MetricsTracker.__init__: keeps the name and calls mlflow.set_experiment of
\* the module object bound when metrics.py was loaded
MetricsTrackerInit(ml, experiment_name) ==
    [mlflow |-> [ml EXCEPT !.experiments = Append(@, experiment_name),
                           !.tracker = Some(experiment_name)],
     error |-> "none"]

\* default_tags.update(tags): the tags given replace the default ones
default_tags(episode_id, tags) ==
    LET defaults == [episode_id |-> episode_id, component |-> "evaluator"]
    IN IF tags = None THEN defaults ELSE tags[1] @@ defaults

\* MetricsTracker.start_run: the run mlflow.start_run(nested=nested) opens,
\* tagged by mlflow.set_tags, and the run id returned
tracker_start_run(ml, episode_id, tags, nested, run_id) ==
    [mlflow |-> [ml EXCEPT !.runs = Append(@, [run_id |-> run_id,
                                               nested |-> nested,
                                               tags |-> default_tags(episode_id, tags)])],
     ret |-> run_id]

\* MetricsTracker.end_run: mlflow.end_run() ends the innermost active run
tracker_end_run(ml) ==
    [ml EXCEPT !.runs = IF @ = <<>> THEN <<>> ELSE SubSeq(@, 1, Len(@) - 1)]

(***************************************************************************)
(* The operations as actions.                                              *)
(***************************************************************************)
\* what the caller saw of an operation: the Episode variable it was called on,
\* its arguments, the exception it raised ("none" if it returned) and its result
Outcome(op, s, args, error, ret) ==
    [op |-> op, slot |-> s, args |-> args, error |-> error, ret |-> ret]

\* ep = Episode(...)
Construct(s) ==
    \E args \in CtorArgs, uuid \in Uuids :
        LET rest == Unbind(episodes, s)
            ref == NewRef(rest)
            eps == Bind(rest, s, EpisodeInit(args, uuid, now, ref))
        IN /\ episodes' = eps
           /\ heap' = Collect(eps, [heap EXCEPT ![ref] = EmptyMetrics])
           /\ streak' = [streak EXCEPT ![s] = 0]
           /\ last' = Outcome("__init__", s, <<>>, "none", <<>>)
           /\ UNCHANGED <<now, sink, scoreIn, scoreOut, mlflow>>

\* ep = Episode(...) with any of the argument samples
ConstructAny(s) ==
    \E args \in AnyCtorArgs, uuid \in Uuids :
        LET rest == Unbind(episodes, s)
            ref == NewRef(rest)
            eps == Bind(rest, s, EpisodeInit(args, uuid, now, ref))
        IN /\ episodes' = eps
           /\ heap' = Collect(eps, [heap EXCEPT ![ref] = EmptyMetrics])
           /\ streak' = [streak EXCEPT ![s] = 0]
           /\ last' = Outcome("__init__", s, args, "none", <<>>)
           /\ UNCHANGED <<now, sink, scoreIn, scoreOut, mlflow>>

\* time passes: datetime.utcnow() returns a later time from now on
ClockTick ==
    /\ now < MaxNow
    /\ now' = now + 1
    /\ last' = Outcome("none", 0, <<>>, "none", <<>>)
    /\ UNCHANGED <<episodes, heap, sink, streak, scoreIn, scoreOut, mlflow>>

\* ep2 = Episode.from_dict(ep.to_dict())
FromDictOfToDict(s) ==
    \E e \in DOMAIN episodes, uuid \in Uuids :
        LET data == to_dict(episodes[e])
            ref == NewRef(Unbind(episodes, s))
            eps == Bind(episodes, s,
                        from_dict(data, episodes[e].metrics, uuid, now, ref))
        IN /\ episodes' = eps
           /\ heap' = Collect(eps, heap)
           /\ streak' = [streak EXCEPT ![s] = -1]
           /\ last' = Outcome("from_dict", s, [source |-> e], "none", <<>>)
           /\ UNCHANGED <<now, sink, scoreIn, scoreOut, mlflow>>

\* ep = Episode.from_dict(payload mapping)
FromDictOfPayload(s) ==
    \E data \in PayloadSamples, uuid \in Uuids :
        IF from_dict_raises(data)
        THEN /\ last' = Outcome("from_dict", s, [data |-> data], "KeyError", <<>>)
             /\ UNCHANGED <<episodes, heap, now, sink, streak, scoreIn, scoreOut, mlflow>>
        ELSE LET rest == Unbind(episodes, s)
                 ref == NewRef(rest)
                 eps == Bind(rest, s, from_dict(data, ref, uuid, now, ref))
             IN /\ episodes' = eps
                /\ heap' = Collect(eps, [heap EXCEPT ![ref] =
                                IF "metrics" \in DOMAIN data
                                THEN data.metrics ELSE EmptyMetrics])
                /\ streak' = [streak EXCEPT ![s] = -1]
                /\ last' = Outcome("from_dict", s, [data |-> data], "none", <<>>)
                /\ UNCHANGED <<now, sink, scoreIn, scoreOut, mlflow>>

\* ep.record_execution(match_result, drift, coherence)
RecordExecution(s) ==
    /\ s \in DOMAIN episodes
    /\ Len(heap[episodes[s].metrics].match) < MaxExec
    /\ Len(heap[episodes[s].metrics].drift) < MaxExec
    /\ Len(heap[episodes[s].metrics].coherence) < MaxExec
    /\ \E ex \in ExecSamples :
         /\ heap' = AppendScores(heap, episodes[s].metrics, ex[1], ex[2], ex[3])
         /\ last' = Outcome("record_execution", s, ex, "none", <<>>)
    /\ episodes' = [episodes EXCEPT ![s] = Recorded(@, now)]
    /\ streak' = StreakAfterRecord(episodes, streak, s)
    /\ UNCHANGED <<now, sink, scoreIn, scoreOut, mlflow>>

\* ep.reset_metrics()
ResetMetrics(s) ==
    /\ s \in DOMAIN episodes
    /\ LET ref == NewRef(Unbind(episodes, s))
           eps == [episodes EXCEPT ![s] = [@ EXCEPT !.metrics = ref,
                                                    !.execution_count = 0,
                                                    !.last_execution_at = None]]
       IN /\ episodes' = eps
          /\ heap' = Collect(eps, [heap EXCEPT ![ref] = EmptyMetrics])
    /\ streak' = [streak EXCEPT ![s] = 0]
    /\ last' = Outcome("reset_metrics", s, <<>>, "none", <<>>)
    /\ UNCHANGED <<now, sink, scoreIn, scoreOut, mlflow>>

\* evaluator.evaluate_episode(ep, actual_outputs)
EvaluateEpisode(s) ==
    /\ s \in DOMAIN episodes
    /\ Len(heap[episodes[s].metrics].match) < MaxExec
    /\ Len(heap[episodes[s].metrics].drift) < MaxExec
    /\ Len(heap[episodes[s].metrics].coherence) < MaxExec
    /\ \E actual_outputs \in ActualSamples,
          fault \in Faults \ {"log_batch_evaluation"} :
         /\ fault \in LeakingFaults => sink.open < MaxOpenRuns
         /\ fault # "none" =>
               ~_compute_drift_raises(episodes[s].expected_outputs, actual_outputs)
         /\ \E most_common_type \in most_common_types(actual_outputs) :
              \E r \in {evaluate_episode(episodes, heap, streak,
                                         [sink EXCEPT !.calls = <<>>, !.log = <<>>], now, s,
                                         actual_outputs, most_common_type, fault)} :
                 /\ episodes' = r.episodes
                 /\ heap' = r.heap
                 /\ streak' = r.streak
                 /\ sink' = r.sink
                 /\ last' = Outcome("evaluate_episode", s, actual_outputs, r.error, r.ret)
    /\ UNCHANGED <<now, scoreIn, scoreOut, mlflow>>

\* evaluator.evaluate_episode(ep, actual_outputs) on the Episode whose
\* expected_outputs and actual outputs are the pair under scoring
EvaluateScored ==
    /\ Len(heap[episodes[1].metrics].match) < MaxExec
    /\ \E most_common_type \in most_common_types(scoreIn.actual) :
         \E r \in {evaluate_episode(episodes, heap, streak,
                                    [sink EXCEPT !.calls = <<>>, !.log = <<>>], now, 1,
                                    scoreIn.actual, most_common_type, "none")} :
            /\ episodes' = r.episodes
            /\ heap' = r.heap
            /\ streak' = r.streak
            /\ sink' = r.sink
            /\ last' = Outcome("evaluate_episode", 1, scoreIn.actual, r.error, r.ret)
    /\ UNCHANGED <<now, scoreIn, scoreOut, mlflow>>

\* the batches of at most MaxBatch pairs over the caller's episodes
Batches ==
    UNION {[1..n -> (DOMAIN episodes) \X ActualSamples] : n \in 0..MaxBatch}

\* the pairs of a batch whose scoring gets as far as the tracker: those up to
\* and including pair i are scored without an exception
ReachesTracker(pairs, i) ==
    \A j \in 1..i :
        ~_compute_drift_raises(episodes[pairs[j][1]].expected_outputs, pairs[j][2])

\* where a batch can meet a fault of the tracker: nowhere, in the run of a
\* pair, or in log_batch_evaluation after the last pair
FaultPoints(pairs) ==
    {<<0, "none">>}
    \cup {<<i, f>> : i \in {j \in 1..Len(pairs) : ReachesTracker(pairs, j)},
                     f \in {"start_run", "set_tags", "log_evaluation_result"}}
    \cup (IF pairs # <<>> /\ ReachesTracker(pairs, Len(pairs))
          THEN {<<Len(pairs) + 1, "log_batch_evaluation">>} ELSE {})

\* for each pair from pair i on, a type max() can return for its outputs
RECURSIVE MostCommonChoices(_, _)
MostCommonChoices(pairs, i) ==
    IF i > Len(pairs) THEN {<<>>}
    ELSE {<<t>> \o rest : t \in most_common_types(pairs[i][2]),
                          rest \in MostCommonChoices(pairs, i + 1)}

\* the lists of every Episode of the batch have room for its executions
BatchFits(pairs) ==
    \A s \in DOMAIN episodes :
        LET n == Cardinality({i \in 1..Len(pairs) :
                    episodes[pairs[i][1]].metrics = episodes[s].metrics})
            m == heap[episodes[s].metrics]
        IN /\ Len(m.match) + n <= MaxExec
           /\ Len(m.drift) + n <= MaxExec
           /\ Len(m.coherence) + n <= MaxExec

\* evaluator.evaluate_batch(pairs, batch_id)
EvaluateBatch ==
    /\ \E pairs \in Batches, batch_id \in BatchIds :
         /\ BatchFits(pairs)
         /\ \E fp \in FaultPoints(pairs),
               mcts \in MostCommonChoices(pairs, 1) :
              /\ fp[2] \in LeakingFaults => sink.open < MaxOpenRuns
              /\ \E r \in {evaluate_batch(episodes, heap, streak,
                                          [sink EXCEPT !.calls = <<>>, !.log = <<>>], now,
                                          pairs, batch_id, mcts, fp[1], fp[2])} :
                   /\ episodes' = r.episodes
                   /\ heap' = r.heap
                   /\ streak' = r.streak
                   /\ sink' = r.sink
                   /\ last' = Outcome("evaluate_batch", 0,
                                      [pairs |-> pairs, batch_id |-> batch_id],
                                      r.error, r.ret)
    /\ UNCHANGED <<now, scoreIn, scoreOut, mlflow>>

\* evaluator.evaluate_batch(pairs, batch_id) over a tracker whose calls succeed
EvaluateBatchUnfailing ==
    /\ \E pairs \in Batches, batch_id \in BatchIds :
         /\ BatchFits(pairs)
         /\ \E mcts \in MostCommonChoices(pairs, 1) :
              \E r \in {evaluate_batch(episodes, heap, streak,
                                       [sink EXCEPT !.calls = <<>>, !.log = <<>>], now,
                                       pairs, batch_id, mcts, 0, "none")} :
                 /\ episodes' = r.episodes
                 /\ heap' = r.heap
                 /\ streak' = r.streak
                 /\ sink' = r.sink
                 /\ last' = Outcome("evaluate_batch", 0,
                                    [pairs |-> pairs, batch_id |-> batch_id],
                                    r.error, r.ret)
    /\ UNCHANGED <<now, scoreIn, scoreOut, mlflow>>

\* tracker.end_run() called by the owner of the tracker
TrackerEndRun ==
    /\ sink' = end_run([sink EXCEPT !.calls = <<>>, !.log = <<>>])
    /\ last' = Outcome("end_run", 0, <<>>, "none", <<>>)
    /\ UNCHANGED <<episodes, heap, now, streak, scoreIn, scoreOut, mlflow>>

(***************************************************************************)
(* evaluator.metrics loaded and MetricsTracker used on its own.            *)
(***************************************************************************)
\* monkeypatch.setitem(sys.modules, "mlflow", ...): mlflow is taken away or
\* put back, with or without its submodule mlflow.entities
SetMlflow ==
    /\ \E installed \in BOOLEAN, entities \in BOOLEAN :
         /\ <<installed, entities>> # <<mlflow.installed, mlflow.entities>>
         /\ mlflow' = [mlflow EXCEPT !.installed = installed,
                                     !.entities = entities]
         /\ last' = Outcome("monkeypatch", 0,
                            [installed |-> installed, entities |-> entities],
                            "none", <<>>)
    /\ UNCHANGED <<episodes, heap, now, sink, streak, scoreIn, scoreOut>>

\* from evaluator import metrics; importlib.reload(metrics): the top of
\* metrics.py runs; when an import raises, a module loaded before stays as it was
ImportMetrics ==
    /\ \E error \in {import_mlflow(mlflow)} :
         /\ mlflow' = [mlflow EXCEPT !.loaded = @ \/ error = "none"]
         /\ last' = Outcome("import evaluator.metrics", 0, <<>>, error, <<>>)
    /\ UNCHANGED <<episodes, heap, now, sink, streak, scoreIn, scoreOut>>

\* mt = metrics.MetricsTracker(experiment_name=...)
NewMetricsTracker ==
    /\ mlflow.loaded
    /\ Len(mlflow.experiments) < MaxTrackers
    /\ \E experiment_name \in ExperimentNames :
         \E r \in {MetricsTrackerInit(mlflow, experiment_name)} :
            /\ mlflow' = r.mlflow
            /\ last' = Outcome("MetricsTracker", 0,
                               [experiment_name |-> experiment_name],
                               r.error, <<>>)
    /\ UNCHANGED <<episodes, heap, now, sink, streak, scoreIn, scoreOut>>

\* rid = mt.start_run(episode_id, tags, nested); mlflow gives the run an id no
\* active run has, and a run that is not nested is started with no run active
StartRun ==
    /\ mlflow.tracker # None
    /\ Len(mlflow.runs) < MaxOpenRuns
    /\ \E episode_id \in TrackedEpisodeIds, tags \in TagSamples,
          nested \in BOOLEAN, run_id \in RunIds :
         /\ nested \/ mlflow.runs = <<>>
         /\ \A i \in DOMAIN mlflow.runs : mlflow.runs[i].run_id # run_id
         /\ \E r \in {tracker_start_run(mlflow, episode_id, tags, nested, run_id)} :
              /\ mlflow' = r.mlflow
              /\ last' = Outcome("MetricsTracker.start_run", 0,
                                 [episode_id |-> episode_id, tags |-> tags,
                                  nested |-> nested],
                                 "none", r.ret)
    /\ UNCHANGED <<episodes, heap, now, sink, streak, scoreIn, scoreOut>>

\* mt.end_run()
EndRun ==
    /\ mlflow.tracker # None
    /\ mlflow' = tracker_end_run(mlflow)
    /\ last' = Outcome("MetricsTracker.end_run", 0, <<>>, "none", <<>>)
    /\ UNCHANGED <<episodes, heap, now, sink, streak, scoreIn, scoreOut>>

(***************************************************************************)
(* The scoring functions applied to arbitrary arguments.                   *)
(***************************************************************************)
NoScore == [fn |-> "none", raised |-> FALSE, val |-> Zero]

ComputeMatch ==
    /\ scoreOut' = [fn |-> "_compute_match", raised |-> FALSE,
                    val |-> _compute_match(scoreIn.expected, scoreIn.actual)]
    /\ UNCHANGED <<episodes, heap, now, sink, last, streak, scoreIn, mlflow>>

ComputeDrift ==
    /\ scoreOut' =
         IF _compute_drift_raises(scoreIn.expected, scoreIn.actual)
         THEN [fn |-> "_compute_drift", raised |-> TRUE, val |-> Zero]
         ELSE [fn |-> "_compute_drift", raised |-> FALSE,
               val |-> _compute_drift(scoreIn.expected, scoreIn.actual)]
    /\ UNCHANGED <<episodes, heap, now, sink, last, streak, scoreIn, mlflow>>

ComputeCoherence ==
    /\ \E t \in most_common_types(scoreIn.actual) :
         scoreOut' = [fn |-> "_compute_coherence", raised |-> FALSE,
                      val |-> _compute_coherence(scoreIn.actual, t)]
    /\ UNCHANGED <<episodes, heap, now, sink, last, streak, scoreIn, mlflow>>

\* the lists of at most MaxEpisodes of the caller's Episodes
EpisodeLists == UNION {[1..n -> DOMAIN episodes] : n \in 0..MaxEpisodes}

\* assert_idempotent(episode_list, threshold)
AssertIdempotent ==
    /\ \E episode_list \in EpisodeLists, threshold \in Thresholds :
         \E r \in {assert_idempotent(episodes, heap, episode_list, threshold)} :
            last' = Outcome("assert_idempotent", 0,
                            [episodes |-> episode_list, threshold |-> threshold],
                            r.error, r.message)
    /\ UNCHANGED <<episodes, heap, now, sink, streak, scoreIn, scoreOut, mlflow>>

\* assert_low_drift(episode_list, max_drift)
AssertLowDrift ==
    /\ \E episode_list \in EpisodeLists, max_drift \in MaxDrifts :
         \E r \in {assert_low_drift(episodes, heap, episode_list, max_drift)} :
            last' = Outcome("assert_low_drift", 0,
                            [episodes |-> episode_list, threshold |-> max_drift],
                            r.error, r.message)
    /\ UNCHANGED <<episodes, heap, now, sink, streak, scoreIn, scoreOut, mlflow>>

\* assert_high_coherence(episode_list, min_coherence)
AssertHighCoherence ==
    /\ \E episode_list \in EpisodeLists, min_coherence \in MinCoherences :
         \E r \in {assert_high_coherence(episodes, heap, episode_list, min_coherence)} :
            last' = Outcome("assert_high_coherence", 0,
                            [episodes |-> episode_list, threshold |-> min_coherence],
                            r.error, r.message)
    /\ UNCHANGED <<episodes, heap, now, sink, streak, scoreIn, scoreOut, mlflow>>

\* validate_episode(episode)
ValidateEpisode ==
    /\ \E key \in IF scoreIn.token_counts.kind = "dict"
                      /\ rejected_keys(scoreIn.token_counts) # {}
                   THEN rejected_keys(scoreIn.token_counts) ELSE {""} :
         \E r \in {validate_episode(scoreIn, key)} :
            scoreOut' = [fn |-> "validate_episode", raised |-> r # None,
                         val |-> IF r = None THEN Reason("", "") ELSE r[1]]
    /\ UNCHANGED <<episodes, heap, now, sink, last, streak, scoreIn, mlflow>>

\* parse_submission_payload(payload)
ParseSubmissionPayload ==
    /\ \E r \in {parse_submission_payload(scoreIn, now)} :
         scoreOut' = [fn |-> "parse_submission_payload",
                      raised |-> r.error # "none", val |-> r.pairs]
    /\ UNCHANGED <<episodes, heap, now, sink, last, streak, scoreIn, mlflow>>

\* evaluate_submission_payload(payload, evaluator=evaluator)
EvaluateSubmissionPayload ==
    /\ \E parsed \in {parse_submission_payload(scoreIn, now)} :
         \E mcts \in MostCommonChoices(
                         [i \in 1..Len(parsed.pairs) |->
                            <<i, parsed.pairs[i].actual_outputs>>], 1) :
            \E r \in {evaluate_submission_payload(
                          scoreIn, [sink EXCEPT !.calls = <<>>, !.log = <<>>], now, mcts)} :
               /\ sink' = r.sink
               /\ last' = Outcome("evaluate_submission_payload", 0,
                                  [pairs |-> r.pairs], r.error, r.ret)
    /\ UNCHANGED <<episodes, heap, now, streak, scoreIn, scoreOut, mlflow>>

(***************************************************************************)
(* Specifications.                                                         *)
(***************************************************************************)
NoInput == [expected |-> PyNone, actual |-> PyNone]

\* the evaluator and its tracker are constructed, the caller holds no Episode
InitProgram ==
    /\ episodes = <<>>
    /\ heap = [r \in Refs |-> EmptyMetrics]
    /\ now = 0
    /\ mlflow = DefaultTracker
    /\ sink = [open |-> 0, calls |-> <<>>, log |-> <<>>]
    /\ last = Outcome("none", 0, <<>>, "none", <<>>)
    /\ streak = [s \in Slots |-> -1]

Init ==
    /\ InitProgram
    /\ scoreIn = NoInput
    /\ scoreOut = NoScore

Next ==
    \/ \E s \in Slots : Construct(s)
    \/ \E s \in Slots : FromDictOfToDict(s)
    \/ \E s \in Slots : FromDictOfPayload(s)
    \/ \E s \in Slots : RecordExecution(s)
    \/ \E s \in Slots : ResetMetrics(s)

Spec == Init /\ [][Next]_vars

\* Episodes constructed, serialized and reconstructed while time passes
NextRoundTrip ==
    \/ \E s \in Slots : ConstructAny(s)
    \/ \E s \in Slots : FromDictOfToDict(s)
    \/ \E s \in Slots : FromDictOfPayload(s)
    \/ ClockTick

SpecRoundTrip == Init /\ [][NextRoundTrip]_vars

\* the caller has constructed one Episode per variable
InitEval ==
    /\ \E uuid \in Uuids :
         episodes = [s \in Slots |-> EpisodeInit(EpisodeArgs[s], uuid, 0, s)]
    /\ heap = [r \in Refs |-> EmptyMetrics]
    /\ now = 0
    /\ mlflow = DefaultTracker
    /\ sink = [open |-> 0, calls |-> <<>>, log |-> <<>>]
    /\ last = Outcome("none", 0, <<>>, "none", <<>>)
    /\ streak = [s \in Slots |-> 0]
    /\ scoreIn = NoInput
    /\ scoreOut = NoScore

\* the evaluator driven over these Episodes
NextEval ==
    \/ \E s \in Slots : ResetMetrics(s)
    \/ \E s \in Slots : EvaluateEpisode(s)
    \/ EvaluateBatch
    \/ TrackerEndRun

SpecEval == InitEval /\ [][NextEval]_vars

\* the caller holds one constructed Episode and its copy made by
\* Episode.from_dict(ep.to_dict()), which refers to the same metrics dict
InitShared ==
    /\ \E uuid \in Uuids :
         LET ep == EpisodeInit(EpisodeArgs[1], uuid, 0, 1)
         IN episodes = [s \in Slots |->
                          IF s = 1 THEN ep
                          ELSE from_dict(to_dict(ep), ep.metrics, uuid, 0, 2)]
    /\ heap = [r \in Refs |-> EmptyMetrics]
    /\ now = 0
    /\ mlflow = DefaultTracker
    /\ sink = [open |-> 0, calls |-> <<>>, log |-> <<>>]
    /\ last = Outcome("none", 0, <<>>, "none", <<>>)
    /\ streak = [s \in Slots |-> -1]
    /\ scoreIn = NoInput
    /\ scoreOut = NoScore

\* the evaluator driven over an Episode and its copy
NextShared ==
    \/ \E s \in Slots : EvaluateEpisode(s)
    \/ EvaluateBatch

SpecShared == InitShared /\ [][NextShared]_vars

\* batches evaluated over the caller's Episodes, and assert_idempotent
\* called on them afterwards
NextAgree ==
    \/ EvaluateBatchUnfailing
    \/ AssertIdempotent

SpecAgree == InitEval /\ [][NextAgree]_vars

\* a process that has not loaded evaluator.metrics yet, with mlflow installed
\* or not
InitTracker ==
    /\ episodes = <<>>
    /\ heap = [r \in Refs |-> EmptyMetrics]
    /\ now = 0
    /\ sink = [open |-> 0, calls |-> <<>>, log |-> <<>>]
    /\ last = Outcome("none", 0, <<>>, "none", <<>>)
    /\ streak = [s \in Slots |-> -1]
    /\ scoreIn = NoInput
    /\ scoreOut = NoScore
    /\ \E installed \in BOOLEAN, entities \in BOOLEAN :
         mlflow = [installed |-> installed, entities |-> entities,
                   loaded |-> FALSE, experiments |-> <<>>, runs |-> <<>>,
                   tracker |-> None]

NextTracker ==
    \/ SetMlflow
    \/ ImportMetrics
    \/ NewMetricsTracker
    \/ StartRun
    \/ EndRun

SpecTracker == InitTracker /\ [][NextTracker]_vars

\* the assertions called on Episodes the caller records executions on
NextAssert ==
    \/ \E s \in Slots : RecordExecution(s)
    \/ \E s \in Slots : ResetMetrics(s)
    \/ AssertIdempotent
    \/ AssertLowDrift
    \/ AssertHighCoherence

SpecAssert == InitEval /\ [][NextAssert]_vars

\* validate_episode on every sample Episode
InitValidate ==
    /\ InitProgram
    /\ scoreIn \in ValidationSamples
    /\ scoreOut = NoScore

NextValidate == ValidateEpisode

SpecValidate == InitValidate /\ [][NextValidate]_vars

\* the submission helpers on every payload within the bounds
InitSubmit ==
    /\ InitProgram
    /\ scoreIn \in SubmissionSamples
    /\ scoreOut = NoScore

NextSubmit ==
    \/ ParseSubmissionPayload
    \/ EvaluateSubmissionPayload

SpecSubmit == InitSubmit /\ [][NextSubmit]_vars

\* one Episode per expected outputs, evaluated on every actual outputs
InitScored ==
    /\ scoreIn \in [expected : ScoredOutputs, actual : ScoredOutputs \cup {PyNone}]
    /\ \E uuid \in Uuids :
         episodes = <<EpisodeInit([EpisodeArgs[1] EXCEPT
                                     !.expected_outputs = scoreIn.expected],
                                  uuid, 0, 1)>>
    /\ heap = [r \in Refs |-> EmptyMetrics]
    /\ now = 0
    /\ mlflow = DefaultTracker
    /\ sink = [open |-> 0, calls |-> <<>>, log |-> <<>>]
    /\ last = Outcome("none", 0, <<>>, "none", <<>>)
    /\ streak = [s \in Slots |-> 0]
    /\ scoreOut = NoScore

NextScored == EvaluateScored

SpecScored == InitScored /\ [][NextScored]_vars

\* the scoring functions on every pair of outputs within the bounds
InitScore ==
    /\ InitProgram
    /\ scoreIn \in [expected : Outputs, actual : Outputs]
    /\ scoreOut = NoScore

NextScore ==
    \/ ComputeMatch
    \/ ComputeDrift

SpecScore == InitScore /\ [][NextScore]_vars

\* _compute_coherence on every outputs argument within the bounds
InitCoherence ==
    /\ InitProgram
    /\ scoreIn \in [expected : {PyNone}, actual : CoherenceOutputs]
    /\ scoreOut = NoScore

NextCoherence == ComputeCoherence

SpecCoherence == InitCoherence /\ [][NextCoherence]_vars

(***************************************************************************)
(* Properties of the scoring functions.                                    *)
(***************************************************************************)
BothDicts == scoreIn.expected.kind = "dict" /\ scoreIn.actual.kind = "dict"

\* C6: _compute_match is 0.5 when expected or actual is empty, else 1.0 when
\* the mappings are equal, else 0.0 / 1.0 / 0.5 as matching_keys is 0, equal
\* to max(|expected|, |actual|), or anything else; it is always 0, 0.5 or 1.
C6_MatchIsTernary ==
    (scoreOut.fn = "_compute_match" /\ BothDicts) =>
        LET e == scoreIn.expected.items
            a == scoreIn.actual.items
            equal == DOMAIN e = DOMAIN a /\ \A k \in DOMAIN e : PyEq(e[k], a[k])
            matching == Cardinality({k \in DOMAIN e \cap DOMAIN a : PyEq(e[k], a[k])})
            ne == Cardinality(DOMAIN e)
            na == Cardinality(DOMAIN a)
            total == IF ne >= na THEN ne ELSE na
        IN /\ scoreOut.val \in {Zero, Half, One}
           /\ scoreOut.val = IF DOMAIN e = {} \/ DOMAIN a = {} THEN Half
                             ELSE IF equal THEN One
                             ELSE IF matching = 0 THEN Zero
                             ELSE IF matching = total THEN One
                             ELSE Half

\* C6 witness: a partial match was scored (some but not all keys match)
C6_Witness ==
    /\ scoreOut.fn = "_compute_match"
    /\ BothDicts
    /\ scoreOut.val = Half
    /\ \E k \in DOMAIN scoreIn.expected.items \cap DOMAIN scoreIn.actual.items :
           PyEq(scoreIn.expected.items[k], scoreIn.actual.items[k])
    /\ \E k \in DOMAIN scoreIn.expected.items \cap DOMAIN scoreIn.actual.items :
           ~PyEq(scoreIn.expected.items[k], scoreIn.actual.items[k])

\* actual has a key that expected does not have, both being non-empty dicts
HasExtraKey(expected, actual) ==
    /\ Truthy(expected)
    /\ Truthy(actual)
    /\ DOMAIN actual.items \ DOMAIN expected.items # {}

\* C7 as claimed: there is a pair of non-empty mappings in which actual has a
\* key absent from expected, matching_keys = total_keys and the match is 1.0.
C7_ExtraKeysCanFullyMatch ==
    \E expected \in Outputs, actual \in Outputs \cup {scoreIn.actual} :
        /\ HasExtraKey(expected, actual)
        /\ matching_keys(expected, actual) = total_keys(expected, actual)
        /\ _compute_match(expected, actual) = One

\* C7 amended: _compute_match never returns 1.0 when actual has a key that
\* expected does not have; such a pair scores 0.0 or 0.5.
C7_ExtraKeysNeverFullyMatch ==
    (scoreOut.fn = "_compute_match"
       /\ HasExtraKey(scoreIn.expected, scoreIn.actual)) =>
        scoreOut.val \in {Zero, Half}

\* C7 witness: every pair of expected is found in actual, actual has one key
\* more, and the pair was scored 0.5
C7_Witness ==
    /\ scoreOut.fn = "_compute_match"
    /\ HasExtraKey(scoreIn.expected, scoreIn.actual)
    /\ \A k \in DOMAIN scoreIn.expected.items :
           /\ k \in DOMAIN scoreIn.actual.items
           /\ PyEq(scoreIn.expected.items[k], scoreIn.actual.items[k])
    /\ scoreOut.val = Half

\* C8: _compute_drift is 0.5 for an empty expected, else the mean over the
\* keys of expected of: 1 for a key missing in actual; for two numbers 1 or 0
\* as actual # 0 when expected is 0, else |actual-expected|/|expected| capped
\* at 1; 0 for equal other values; 1 for different ones.  Keys of actual that
\* expected lacks do not count, and the drift lies in [0,1].
C8_DriftIsMeanOverExpected ==
    (scoreOut.fn = "_compute_drift" /\ ~scoreOut.raised /\ BothDicts) =>
        LET e == scoreIn.expected.items
            a == scoreIn.actual.items
            relative(k) == Rat(Abs(a[k].v - e[k].v), Abs(e[k].v))
            contribution(k) ==
                IF k \notin DOMAIN a THEN One
                ELSE IF IsNumeric(e[k]) /\ IsNumeric(a[k])
                THEN IF e[k].v = 0 THEN (IF a[k].v # 0 THEN One ELSE Zero)
                     ELSE IF RLe(One, relative(k)) THEN One ELSE relative(k)
                ELSE IF PyEq(e[k], a[k]) THEN Zero
                ELSE One
            n == Cardinality(DOMAIN e)
            restricted == Dict([k \in DOMAIN a \cap DOMAIN e |-> a[k]])
        IN /\ RLe(Zero, scoreOut.val) /\ RLe(scoreOut.val, One)
           /\ (n = 0) => scoreOut.val = Half
           /\ (n > 0) => RMul(scoreOut.val, <<n, 1>>)
                           = RSum([k \in DOMAIN e |-> contribution(k)], DOMAIN e)
           /\ scoreOut.val = _compute_drift(scoreIn.expected, restricted)

\* C8 witness: one key of expected is missing in actual and the other has a
\* relative error of one half, so the drift is 3/4
C8_Witness ==
    /\ scoreOut.fn = "_compute_drift"
    /\ ~scoreOut.raised
    /\ BothDicts
    /\ DOMAIN scoreIn.expected.items \ DOMAIN scoreIn.actual.items # {}
    /\ scoreOut.val = <<3, 4>>

\* C9: _compute_coherence is 0.5 for an empty mapping, 0.0 when every value
\* is null, and otherwise half the share of non-null values plus half the
\* share of non-null values that have the most frequent type; it lies in
\* [0,1] and is the same whichever of several most frequent types is picked.
C9_CoherenceFormula ==
    (scoreOut.fn = "_compute_coherence" /\ scoreIn.actual.kind = "dict") =>
        LET a == scoreIn.actual.items
            total == Cardinality(DOMAIN a)
            nonnull == {k \in DOMAIN a : a[k].type # "NoneType"}
            nn == Cardinality(nonnull)
            count(t) == Cardinality({k \in nonnull : a[k].type = t})
            counts == {count(a[k].type) : k \in nonnull}
            best == CHOOSE c \in counts : \A d \in counts : d <= c
        IN /\ RLe(Zero, scoreOut.val) /\ RLe(scoreOut.val, One)
           /\ (total = 0) => scoreOut.val = Half
           /\ (total > 0 /\ nn = 0) => scoreOut.val = Zero
           /\ (nn > 0) => scoreOut.val = RAdd(RMul(Half, Rat(nn, total)),
                                              RMul(Half, Rat(best, nn)))
           /\ \A t \in most_common_types(scoreIn.actual) :
                  _compute_coherence(scoreIn.actual, t) = scoreOut.val

\* C9 witness: a mapping with a null value and two types that are equally
\* frequent was scored
C9_Witness ==
    /\ scoreOut.fn = "_compute_coherence"
    /\ scoreIn.actual.kind = "dict"
    /\ \E k \in DOMAIN scoreIn.actual.items : scoreIn.actual.items[k] = NoneValue
    /\ Cardinality(most_common_types(scoreIn.actual)) >= 2
    /\ scoreOut.val = <<7, 12>>

\* the distinct runtime types among the values of a mapping
TypesOf(outputs) == {outputs.items[k].type : k \in DOMAIN outputs.items}

\* C10: a null-free mapping of n >= 2 values with at least two distinct types
\* has a coherence strictly below that of a null-free mapping of n values of
\* one type, which is 1.0.
C10_MixedTypesLowerCoherence ==
    (/\ scoreOut.fn = "_compute_coherence"
     /\ scoreIn.actual.kind = "dict"
     /\ Cardinality(DOMAIN scoreIn.actual.items) >= 2
     /\ "NoneType" \notin TypesOf(scoreIn.actual)) =>
        /\ Cardinality(TypesOf(scoreIn.actual)) = 1 => scoreOut.val = One
        /\ Cardinality(TypesOf(scoreIn.actual)) >= 2 => RLt(scoreOut.val, One)

\* C10 witness: three values, two of one type and one of another, were scored
C10_Witness ==
    /\ scoreOut.fn = "_compute_coherence"
    /\ scoreIn.actual.kind = "dict"
    /\ Cardinality(DOMAIN scoreIn.actual.items) = 3
    /\ "NoneType" \notin TypesOf(scoreIn.actual)
    /\ Cardinality(TypesOf(scoreIn.actual)) = 2
    /\ scoreOut.val = <<5, 6>>

(***************************************************************************)
(* Properties of the Episode and of the evaluator.                         *)
(***************************************************************************)
MetricsOf(s) == heap[episodes[s].metrics]

\* C1: N calls of record_execution in a row on a fresh or just-reset Episode
\* leave execution_count = N and three lists of length N; reset_metrics then
\* leaves execution_count = 0, three empty lists and no last_execution_at.
C1_RecordNThenReset ==
    \A s \in DOMAIN episodes :
        /\ streak[s] >= 0 =>
              /\ episodes[s].execution_count = streak[s]
              /\ Len(MetricsOf(s).match) = streak[s]
              /\ Len(MetricsOf(s).drift) = streak[s]
              /\ Len(MetricsOf(s).coherence) = streak[s]
        /\ (last.op = "reset_metrics" /\ last.slot = s) =>
              /\ episodes[s].execution_count = 0
              /\ MetricsOf(s) = EmptyMetrics
              /\ episodes[s].last_execution_at = None

\* C1 witness: two calls in a row on a fresh Episode have just been made
C1_Witness ==
    /\ last.op = "record_execution"
    /\ streak[last.slot] = 2
    /\ episodes[last.slot].execution_count = 2

\* C2 as claimed: every Episode the caller holds has three lists of one
\* length, and execution_count is that length.
C2_CountEqualsLengths ==
    \A s \in DOMAIN episodes :
        /\ Len(MetricsOf(s).match) = Len(MetricsOf(s).drift)
        /\ Len(MetricsOf(s).match) = Len(MetricsOf(s).coherence)
        /\ episodes[s].execution_count = Len(MetricsOf(s).match)

\* C3: a call of evaluate_episode that returns has appended the match, drift
\* and coherence of the pair to the Episode's three lists (earlier elements
\* kept), has raised execution_count by one, has left the identity fields and
\* created_at alone, and returns the three appended values.
C3_EvaluateEpisodeEffect ==
    [][(last'.op = "evaluate_episode" /\ last'.error = "none") =>
        LET s == last'.slot
            actual_outputs == last'.args
            before == heap[episodes[s].metrics]
            after == heap'[episodes'[s].metrics]
            expected == episodes[s].expected_outputs
        IN /\ after.match = Append(before.match,
                                   _compute_match(expected, actual_outputs))
           /\ after.drift = Append(before.drift,
                                   _compute_drift(expected, actual_outputs))
           /\ \E t \in most_common_types(actual_outputs) :
                 after.coherence = Append(before.coherence,
                                          _compute_coherence(actual_outputs, t))
           /\ episodes'[s].execution_count = episodes[s].execution_count + 1
           /\ \A f \in {"episode_id", "inputs", "expected_outputs", "prompt",
                        "model_name", "token_counts", "metadata", "created_at"} :
                 episodes'[s][f] = episodes[s][f]
           /\ last'.ret = <<after.match[Len(after.match)],
                            [drift |-> after.drift[Len(after.drift)],
                             coherence |-> after.coherence[Len(after.coherence)],
                             match_result |-> after.match[Len(after.match)]]>>
      ]_vars

\* C3 witness: evaluate_episode has returned on an Episode that already held
\* an execution
C3_Witness ==
    /\ last.op = "evaluate_episode"
    /\ last.error = "none"
    /\ Len(MetricsOf(last.slot).match) = 2
    /\ episodes[last.slot].execution_count = 2

\* C4 as claimed: evaluate_episode ends every run it started before it exits,
\* also when the tracker raises in between; it leaves no run open.
C4_RunEndedOnExit ==
    [][(last'.op = "evaluate_episode") => sink'.open <= sink.open]_vars

\* C5 as claimed: evaluate_batch on a list of two or more pairs of which one
\* has actual_outputs that is not a mapping, over a tracker that does not
\* fail, returns a result with the batch_id, episodes_count = number of pairs,
\* results and a summary.
C5_BadPairDoesNotAbortBatch ==
    (/\ last.op = "evaluate_batch"
     /\ last.error # "SinkError"
     /\ Len(last.args.pairs) >= 2
     /\ Cardinality({i \in DOMAIN last.args.pairs :
                        last.args.pairs[i][2].kind # "dict"}) = 1) =>
        /\ last.error = "none"
        /\ last.ret.batch_id = last.args.batch_id
        /\ last.ret.episodes_count = Len(last.args.pairs)
        /\ "results" \in DOMAIN last.ret
        /\ "summary" \in DOMAIN last.ret

(***************************************************************************)
(* Properties of construction and of the round trip through a mapping.     *)
(***************************************************************************)
\* a step of ep2 = Episode.from_dict(ep.to_dict())
IsRoundTrip == last'.op = "from_dict" /\ "source" \in DOMAIN last'.args

\* a returning step of Episode.from_dict on a payload mapping
IsFromPayload ==
    last'.op = "from_dict" /\ "data" \in DOMAIN last'.args /\ last'.error = "none"

\* C23: Episode.from_dict(e.to_dict()) has the episode_id, inputs,
\* expected_outputs, prompt, model_name, token_counts and metadata of e.
C23_RoundTripKeepsIdentity ==
    [][IsRoundTrip =>
        LET e == episodes[last'.args.source]
            copy == episodes'[last'.slot]
        IN /\ copy.episode_id = e.episode_id
           /\ copy.inputs = e.inputs
           /\ copy.expected_outputs = e.expected_outputs
           /\ copy.prompt = e.prompt
           /\ copy.model_name = e.model_name
           /\ copy.token_counts = e.token_counts
           /\ copy.metadata = e.metadata
      ]_vars

\* C23 witness: the copy of an Episode with token counts and metadata of its
\* own, held in the other variable
C23_Witness ==
    /\ last.op = "from_dict"
    /\ "source" \in DOMAIN last.args
    /\ last.args.source # last.slot
    /\ episodes[last.slot].episode_id = "ep-1"
    /\ episodes[last.slot].token_counts.input_tokens = 12
    /\ episodes[last.slot].metadata = Dict("a" :> PyInt(1))

\* C24 as claimed: Episode.from_dict(e.to_dict()) also has the created_at,
\* the three lists, the execution_count and the last_execution_at of e; and
\* from_dict of a mapping without "metrics", "execution_count" and
\* "last_execution_at" has empty lists, execution_count 0 and
\* last_execution_at None.
C24_RoundTripKeepsAllFields ==
    [][/\ IsRoundTrip =>
            LET e == episodes[last'.args.source]
                copy == episodes'[last'.slot]
            IN /\ copy.created_at = e.created_at
               /\ heap'[copy.metrics] = heap[e.metrics]
               /\ copy.execution_count = e.execution_count
               /\ copy.last_execution_at = e.last_execution_at
       /\ (IsFromPayload
             /\ DOMAIN last'.args.data
                   \cap {"metrics", "execution_count", "last_execution_at"} = {}) =>
            LET copy == episodes'[last'.slot]
            IN /\ heap'[copy.metrics] = EmptyMetrics
               /\ copy.execution_count = 0
               /\ copy.last_execution_at = None
      ]_vars

\* C25 as claimed: after Episode(...) with any arguments, episode_id, prompt
\* and model_name are non-empty.
C25_NeverEmptyAfterConstruction ==
    last.op = "__init__" =>
        /\ episodes[last.slot].episode_id # ""
        /\ episodes[last.slot].prompt # ""
        /\ episodes[last.slot].model_name # ""

\* C25 amended: after Episode(...) with any arguments, episode_id is
\* non-empty: it is the episode_id given, or a generated identifier when
\* that is absent or empty; prompt and model_name are those given.
C25_IdNeverEmptyAfterConstruction ==
    (last.op = "__init__" /\ last.args # <<>>) =>
        LET ep == episodes[last.slot]
        IN /\ ep.episode_id # ""
           /\ ep.episode_id =
                 IF last.args.episode_id \in {None, Some("")}
                 THEN "uuid-1" ELSE last.args.episode_id[1]
           /\ ep.prompt = last.args.prompt
           /\ ep.model_name = last.args.model_name

\* C25 witness: an Episode constructed with an empty episode_id, prompt and
\* model_name has a generated identifier
C25_Witness ==
    /\ last.op = "__init__"
    /\ last.args # <<>>
    /\ last.args.episode_id = Some("")
    /\ last.args.prompt = ""
    /\ episodes[last.slot].episode_id = "uuid-1"

(***************************************************************************)
(* Properties of evaluate_batch and of failures inside the evaluator.      *)
(***************************************************************************)
\* C11: a returning evaluate_batch yields episodes_count = number of pairs
\* and a results list with one entry per pair in input order, entry i holding
\* the episode_id and the match, drift and coherence of pair i; an empty
\* list yields episodes_count = 0 and no results.
C11_ResultsInInputOrder ==
    (last.op = "evaluate_batch" /\ last.error = "none") =>
        LET pairs == last.args.pairs
            results == last.ret.results
        IN /\ last.ret.episodes_count = Len(pairs)
           /\ Len(results) = Len(pairs)
           /\ pairs = <<>> => results = <<>> /\ last.ret.episodes_count = 0
           /\ \A i \in 1..Len(pairs) :
                 LET expected == episodes[pairs[i][1]].expected_outputs
                     actual == pairs[i][2]
                 IN /\ results[i].episode_id = episodes[pairs[i][1]].episode_id
                    /\ results[i].match_result = _compute_match(expected, actual)
                    /\ results[i].metrics.match_result = results[i].match_result
                    /\ results[i].metrics.drift = _compute_drift(expected, actual)
                    /\ \E t \in most_common_types(actual) :
                          results[i].metrics.coherence = _compute_coherence(actual, t)

\* C11 witness: a batch of the second Episode followed by the first returned
C11_Witness ==
    /\ last.op = "evaluate_batch"
    /\ last.error = "none"
    /\ Len(last.args.pairs) = 2
    /\ last.args.pairs[1][1] = 2
    /\ last.args.pairs[2][1] = 1
    /\ last.ret.results[1].episode_id = "ep-1"
    /\ last.ret.results[1].match_result = Half
    /\ last.ret.results[2].match_result = One

\* the lists of Episode s before and after a step
Before(s) == heap[episodes[s].metrics]
After(s) == heap'[episodes'[s].metrics]

\* the three lists of m have one length and count equals it
Whole(m, count) ==
    /\ Len(m.match) = Len(m.drift)
    /\ Len(m.match) = Len(m.coherence)
    /\ count = Len(m.match)

\* C13: when a tracker call raises during evaluate_episode on an Episode
\* whose three lists had one length and execution_count equal to it, they
\* still have; the execution is in all three lists and counted, or in none
\* and not counted.
C13_SinkFailureKeepsEpisodeWhole ==
    [][(last'.op = "evaluate_episode" /\ last'.error = "SinkError") =>
        LET s == last'.slot
            n == Len(Before(s).match)
        IN /\ Whole(Before(s), episodes[s].execution_count)
                => Whole(After(s), episodes'[s].execution_count)
           /\ \/ /\ After(s) = Before(s)
                 /\ episodes'[s].execution_count = episodes[s].execution_count
              \/ /\ Len(After(s).match) = n + 1
                 /\ SubSeq(After(s).match, 1, n) = Before(s).match
                 /\ SubSeq(After(s).drift, 1, n) = Before(s).drift
                 /\ SubSeq(After(s).coherence, 1, n) = Before(s).coherence
                 /\ episodes'[s].execution_count = episodes[s].execution_count + 1
      ]_vars

\* C13 witness: log_evaluation_result raised on an Episode that held one
\* execution and now holds two
C13_Witness ==
    /\ last.op = "evaluate_episode"
    /\ last.error = "SinkError"
    /\ sink.calls = <<"start_run", "log_evaluation_result">>
    /\ episodes[last.slot].execution_count = 2
    /\ Len(MetricsOf(last.slot).coherence) = 2

\* the positions before position k at which a batch names Episode s
EarlierPairs(pairs, k, s) == {j \in 1..(k - 1) : pairs[j][1] = s}

\* the pair of a batch at which _compute_drift raises first
FirstBadPair(pairs) ==
    CHOOSE k \in 1..Len(pairs) :
        /\ _compute_drift_raises(episodes[pairs[k][1]].expected_outputs, pairs[k][2])
        /\ ReachesTracker(pairs, k - 1)

\* C14 as claimed: when scoring raises for pair k of evaluate_batch over
\* Episodes that each had three lists of one length and execution_count equal
\* to it, every Episode has gained exactly one execution per earlier pair
\* that names it and nothing for pair k or a later pair, and still has three
\* lists of one length with execution_count equal to it.
C14_ScoringErrorKeepsEpisodesWhole ==
    [][(/\ last'.op = "evaluate_batch"
        /\ last'.error = "TypeError"
        /\ \A s \in DOMAIN episodes :
              Whole(Before(s), episodes[s].execution_count)) =>
        LET pairs == last'.args.pairs
            k == FirstBadPair(pairs)
        IN \A s \in DOMAIN episodes :
              LET gained == Cardinality(EarlierPairs(pairs, k, s))
                  n == Len(Before(s).match)
              IN /\ Len(After(s).match) = n + gained
                 /\ Len(After(s).drift) = n + gained
                 /\ Len(After(s).coherence) = n + gained
                 /\ SubSeq(After(s).match, 1, n) = Before(s).match
                 /\ SubSeq(After(s).drift, 1, n) = Before(s).drift
                 /\ SubSeq(After(s).coherence, 1, n) = Before(s).coherence
                 /\ episodes'[s].execution_count
                       = episodes[s].execution_count + gained
                 /\ episodes'[s].execution_count = Len(After(s).match)
      ]_vars

\* C28 as claimed: with ep2 = Episode.from_dict(ep.to_dict()), an execution
\* recorded on ep2 by evaluate_episode, or by evaluate_batch over ep2 alone,
\* leaves the three lists and the execution_count of ep as they were, so
\* that ep keeps execution_count equal to the length of its lists.
C28_CopySharesNoState ==
    [][(\/ last'.op = "evaluate_episode" /\ last'.slot = 2
        \/ /\ last'.op = "evaluate_batch"
           /\ \A i \in 1..Len(last'.args.pairs) : last'.args.pairs[i][1] = 2) =>
        /\ After(1) = Before(1)
        /\ episodes'[1].execution_count = episodes[1].execution_count
        /\ Whole(Before(1), episodes[1].execution_count)
              => Whole(After(1), episodes'[1].execution_count)
      ]_vars

\* the sum of the integers f[i], i in S
RECURSIVE IntSum(_, _)
IntSum(f, S) == IF S = {} THEN 0
                ELSE LET i == CHOOSE i \in S : TRUE
                     IN f[i] + IntSum(f, S \ {i})

\* C12: for a batch that returns with a summary, idempotency_rate is the
\* number of pairs whose match is exactly 1.0 over the number of pairs (0.5
\* is no match) and total_tokens is the sum of input_tokens + output_tokens
\* over the pairs; one perfect match with one full mismatch gives 0.5.
C12_SummaryRateAndTokens ==
    (last.op = "evaluate_submission_payload" /\ last.error = "none") =>
        LET pairs == last.args.pairs
            n == Len(pairs)
            score(i) == _compute_match(pairs[i].episode.expected_outputs,
                                       pairs[i].actual_outputs)
            matches == {i \in 1..n : score(i) = One}
            tokens == [i \in 1..n |->
                         pairs[i].episode.token_counts.input_tokens
                         + pairs[i].episode.token_counts.output_tokens]
            summary == last.ret.summary
        IN /\ n > 0
           /\ summary.idempotency_rate[1] * n
                 = Cardinality(matches) * summary.idempotency_rate[2]
           /\ summary.total_tokens = IntSum(tokens, 1..n)
           /\ (n = 2 /\ {score(1), score(2)} = {One, Zero})
                 => summary.idempotency_rate = Half

\* C12 witness: a perfect match, a full mismatch and a partial match were
\* evaluated in one batch: the rate is 1/3 and 18 tokens are counted
C12_Witness ==
    /\ last.op = "evaluate_submission_payload"
    /\ last.error = "none"
    /\ Len(last.args.pairs) = 3
    /\ {last.ret.results[i].match_result : i \in 1..3} = {One, Zero, Half}
    /\ last.ret.summary.idempotency_rate = <<1, 3>>
    /\ last.ret.summary.total_tokens = 18

(***************************************************************************)
(* Properties of the submission helpers.                                   *)
(***************************************************************************)
\* the positions of the items of a list that are dicts with a mapping
\* "episode" holding the four required keys and a mapping "actual_outputs"
UsableItems(items) ==
    {i \in 1..Len(items) :
        /\ items[i].kind = "dict"
        /\ items[i].episode.kind = "dict"
        /\ items[i].actual_outputs.kind = "dict"
        /\ {"inputs", "expected_outputs", "prompt", "model_name"}
              \subseteq DOMAIN items[i].episode.data}

\* C20: a returning parse_submission_payload yields one pair per usable item
\* and none for any other, in the order of the items: the pair of a usable
\* item holds the Episode of its "episode" mapping and its "actual_outputs",
\* whatever other items the list holds.
C20_ParseKeepsUsableItemsInOrder ==
    (scoreOut.fn = "parse_submission_payload" /\ ~scoreOut.raised) =>
        LET items == scoreIn.episodes.items
            usable == UsableItems(items)
            rank(i) == Cardinality({j \in usable : j <= i})
        IN /\ Len(scoreOut.val) = Cardinality(usable)
           /\ usable # {}
           /\ \A i \in usable :
                 LET pair == scoreOut.val[rank(i)]
                     data == items[i].episode.data
                 IN /\ pair.actual_outputs = items[i].actual_outputs
                    /\ pair.episode.episode_id = data.episode_id
                    /\ pair.episode.inputs = data.inputs
                    /\ pair.episode.expected_outputs = data.expected_outputs
                    /\ pair.episode.prompt = data.prompt
                    /\ pair.episode.model_name = data.model_name
                    /\ pair.episode.token_counts = data.token_counts

\* C20 witness: three items of which the second has an episode that is no
\* mapping gave the two pairs of the first and the third, in that order
C20_Witness ==
    /\ scoreOut.fn = "parse_submission_payload"
    /\ ~scoreOut.raised
    /\ Len(scoreIn.episodes.items) = 3
    /\ scoreIn.episodes.items[2].kind = "dict"
    /\ scoreIn.episodes.items[2].episode.kind = "str"
    /\ Len(scoreOut.val) = 2
    /\ scoreOut.val[1].episode.episode_id = "ep-2"
    /\ scoreOut.val[2].episode.episode_id = "ep-1"

\* a payload the adapter cannot use: no dict, an "episodes" entry that is no
\* list, or a list without a usable item
Unusable(payload) ==
    \/ payload.kind # "dict"
    \/ payload.episodes.kind # "list"
    \/ UsableItems(payload.episodes.items) = {}

\* C21: parse_submission_payload raises InvalidSubmissionPayload exactly for
\* an unusable payload, and evaluate_submission_payload of such a payload
\* raises it too, returns nothing, calls the tracker not at all and leaves
\* every Episode and every metrics dict as it was.
C21_UnusablePayloadRejectedWhole ==
    [][/\ scoreOut'.fn = "parse_submission_payload"
           => (scoreOut'.raised <=> Unusable(scoreIn))
       /\ (last'.op = "evaluate_submission_payload" /\ Unusable(scoreIn))
           => /\ last'.error = "InvalidSubmissionPayload"
              /\ last'.ret = <<>>
              /\ last'.args.pairs = <<>>
              /\ sink'.calls = <<>>
              /\ sink'.open = sink.open
              /\ episodes' = episodes
              /\ heap' = heap
      ]_vars

\* C21 witness: evaluate_submission_payload raised on a dict payload whose
\* two items are both unusable
C21_Witness ==
    /\ last.op = "evaluate_submission_payload"
    /\ last.error = "InvalidSubmissionPayload"
    /\ scoreIn.kind = "dict"
    /\ scoreIn.episodes.kind = "list"
    /\ Len(scoreIn.episodes.items) = 2
    /\ sink.calls = <<>>

\* a string of the model as validate_episode sees it: the empty string has no
\* character, every other string of the model has no whitespace in it
Chars(string) == IF string = "" THEN Str(<<>>) ELSE Str(<<string>>)

\* the attributes of an Episode as the values validate_episode checks
Attributes(ep) ==
    [episode_id |-> Chars(ep.episode_id),
     inputs |-> ep.inputs,
     expected_outputs |-> ep.expected_outputs,
     prompt |-> Chars(ep.prompt),
     model_name |-> Chars(ep.model_name),
     token_counts |-> Tokens([k \in DOMAIN ep.token_counts |->
                                 PyInt(ep.token_counts[k])])]

\* C22 as claimed: the Episode of every pair parse_submission_payload returns
\* passes validate_episode.
C22_ParsedEpisodesAreValid ==
    (scoreOut.fn = "parse_submission_payload" /\ ~scoreOut.raised) =>
        \A i \in 1..Len(scoreOut.val) :
            validate_episode(Attributes(scoreOut.val[i].episode), "") = None

(***************************************************************************)
(* Properties of validate_episode.                                         *)
(***************************************************************************)
\* x is a string with a character that is no blank
NonBlank(x) == x.type = "str" /\ \E i \in 1..Len(x.chars) : x.chars[i] # " "

\* x is a string of at least one character
NonEmptyStr(x) == x.type = "str" /\ x.chars # <<>>

\* x is a dict with at least one key
NonEmptyMapping(x) == x.kind = "dict" /\ DOMAIN x.items # {}

\* x is a dict with both token keys whose values are all ints >= 0
GoodTokenCounts(x) ==
    /\ x.kind = "dict"
    /\ {"input_tokens", "output_tokens"} \subseteq DOMAIN x.items
    /\ \A k \in DOMAIN x.items :
          x.items[k].type \in {"int", "bool"} /\ x.items[k].v >= 0

\* what makes the i-th attribute checked valid
FieldValid(episode, i) ==
    CASE i = 1 -> NonBlank(episode.episode_id)
      [] i = 2 -> NonEmptyMapping(episode.inputs)
      [] i = 3 -> NonEmptyMapping(episode.expected_outputs)
      [] i = 4 -> NonBlank(episode.prompt)
      [] i = 5 -> NonBlank(episode.model_name)
      [] i = 6 -> GoodTokenCounts(episode.token_counts)

\* the attribute a message is about
FieldOfMessage(message) ==
    CASE message \in {"episode_id must be a non-empty string"} -> 1
      [] message \in {"inputs must be a dictionary", "inputs cannot be empty"} -> 2
      [] message \in {"expected_outputs must be a dictionary",
                      "expected_outputs cannot be empty"} -> 3
      [] message \in {"prompt must be a non-empty string"} -> 4
      [] message \in {"model_name must be a non-empty string"} -> 5
      [] OTHER -> 6

\* C15: a failing validate_episode reports the first attribute, in the order
\* episode_id, inputs, expected_outputs, prompt, model_name, token_counts,
\* that is invalid; passing or failing, it leaves the Episode as it was.
C15_FirstViolationReported ==
    [][(scoreOut'.fn = "validate_episode") =>
        /\ scoreIn' = scoreIn
        /\ scoreOut'.raised =>
              LET f == FieldOfMessage(scoreOut'.val.message)
              IN /\ ~FieldValid(scoreIn, f)
                 /\ \A g \in 1..(f - 1) : FieldValid(scoreIn, g)
      ]_vars

\* C15 witness: an Episode with empty inputs, a blank prompt and a negative
\* token count was rejected for its inputs
C15_Witness ==
    /\ scoreOut.fn = "validate_episode"
    /\ scoreOut.raised
    /\ scoreOut.val.message = "inputs cannot be empty"
    /\ ~NonBlank(scoreIn.prompt)
    /\ ~GoodTokenCounts(scoreIn.token_counts)
    /\ NonBlank(scoreIn.episode_id)

Pooled(episode_list, field) ==
    {<<i, j>> \in (1..Len(episode_list)) \X (1..MaxExec + 1) :
        j <= Len(MetricsOf(episode_list[i])[field])}

ScoreAt(episode_list, field, ij) == MetricsOf(episode_list[ij[1]])[field][ij[2]]

\* the sum of the scores of a pool
RECURSIVE PoolSum(_, _, _)
PoolSum(episode_list, field, pool) ==
    IF pool = {} THEN Zero
    ELSE LET ij == CHOOSE ij \in pool : TRUE
         IN RAdd(ScoreAt(episode_list, field, ij),
                 PoolSum(episode_list, field, pool \ {ij}))

\* the messages raised for a lack of data and for a threshold not met
NoDataMessages ==
    {"Cannot assert idempotency on empty episode list",
     "No executions recorded for episodes",
     "Cannot assert drift on empty episode list",
     "No drift metrics recorded for episodes",
     "Cannot assert coherence on empty episode list",
     "No coherence metrics recorded for episodes"}

ThresholdMessages ==
    {"Idempotency rate below threshold", "Average drift exceeds threshold",
     "Average coherence below threshold"}

\* the list field an assertion reads
FieldOfAssertion(op) ==
    CASE op = "assert_idempotent" -> "match"
      [] op = "assert_low_drift" -> "drift"
      [] op = "assert_high_coherence" -> "coherence"

Assertions == {"assert_idempotent", "assert_low_drift", "assert_high_coherence"}

\* C17: over Episodes holding at least one execution, assert_idempotent
\* returns true exactly when (match scores equal to 1.0) / (match scores
\* recorded), over all Episodes of the list, is >= threshold, the bound
\* included and 0.5 being no match; otherwise it fails.
C17_IdempotentIffRateAtLeastThreshold ==
    (last.op = "assert_idempotent"
       /\ Pooled(last.args.episodes, "match") # {}) =>
        LET pool == Pooled(last.args.episodes, "match")
            ones == {ij \in pool : ScoreAt(last.args.episodes, "match", ij) = One}
            threshold == last.args.threshold
        IN /\ last.error \in {"none", "AssertionError"}
           /\ last.error = "none"
                <=> Cardinality(ones) * threshold[2]
                      >= threshold[1] * Cardinality(pool)

\* C17 witness: a list with one match of two executions passed at the
\* threshold one half
C17_Witness ==
    /\ last.op = "assert_idempotent"
    /\ last.error = "none"
    /\ last.args.threshold = Half
    /\ Cardinality(Pooled(last.args.episodes, "match")) = 2
    /\ \E ij \in Pooled(last.args.episodes, "match") :
           ScoreAt(last.args.episodes, "match", ij) = Half

C19_PooledMeanAgainstBound ==
    (last.op \in {"assert_low_drift", "assert_high_coherence"}
       /\ Pooled(last.args.episodes, FieldOfAssertion(last.op)) # {}) =>
        LET field == FieldOfAssertion(last.op)
            pool == Pooled(last.args.episodes, field)
            total == PoolSum(last.args.episodes, field, pool)
            bound == RMul(last.args.threshold, <<Cardinality(pool), 1>>)
        IN /\ last.error \in {"none", "AssertionError"}
           /\ last.op = "assert_low_drift"
                 => (last.error = "none" <=> RLe(total, bound))
           /\ last.op = "assert_high_coherence"
                 => (last.error = "none" <=> RLe(bound, total))

\* C19 witness: assert_low_drift failed at 0.1 on an Episode with two drifts
\* of 0.2 and one with a drift of 0.0, whose own means average to 0.1
C19_Witness ==
    /\ last.op = "assert_low_drift"
    /\ last.error = "AssertionError"
    /\ last.args.threshold = <<1, 10>>
    /\ Len(last.args.episodes) = 2
    /\ MetricsOf(last.args.episodes[1]).drift = <<<<1, 5>>, <<1, 5>>>>
    /\ MetricsOf(last.args.episodes[2]).drift = <<Zero>>

(***************************************************************************)
(* Properties of the three scores of one evaluation.                       *)
(***************************************************************************)
(***************************************************************************)
(* The order of the evaluator's calls in a batch.                          *)
(***************************************************************************)
\* the calls evaluate_episode makes for one pair
PairCalls == <<"record_execution", "start_run", "log_evaluation_result", "end_run">>

\* the greatest number of runs open after any of the first k calls of a log
\* that began with open runs open
RECURSIVE MostOpen(_, _, _)
MostOpen(log, k, open) ==
    IF k = 0 THEN open
    ELSE LET before == MostOpen(log, k - 1, open)
             opened == Cardinality({i \in 1..k : log[i] = "start_run"})
             ended == Cardinality({i \in 1..k : log[i] = "end_run"})
         IN IF open + opened - ended > before THEN open + opened - ended
            ELSE before

\* C27: when evaluate_batch over n >= 1 pairs returns, no tracker call having
\* failed, the calls it made are, pair after pair in input order,
\* record_execution, start_run, log_evaluation_result, end_run, followed by
\* one log_batch_evaluation; the tracker saw these calls without the
\* record_execution ones; the runs open never exceed by more than one the
\* runs open before the call, so with none open before never two are open;
\* for n = 0 neither the tracker nor an Episode is called.
C27_BatchCallOrder ==
    [][(last'.op = "evaluate_batch" /\ last'.error = "none") =>
          LET pairs == last'.args.pairs
              n == Len(pairs)
              log == sink'.log
          IN IF n = 0
             THEN /\ log = <<>>
                  /\ sink'.calls = <<>>
                  /\ sink'.open = sink.open
             ELSE /\ Len(log) = 4 * n + 1
                  /\ \A i \in 1..n : SubSeq(log, 4 * i - 3, 4 * i) = PairCalls
                  /\ log[4 * n + 1] = "log_batch_evaluation"
                  /\ sink'.calls = SelectSeq(log, LAMBDA c : c # "record_execution")
                  /\ MostOpen(log, Len(log), sink.open) = sink.open + 1
                  /\ sink'.open = sink.open
                  /\ \A i \in 1..n :
                        Len(heap'[episodes'[pairs[i][1]].metrics].match)
                            > Len(heap[episodes[pairs[i][1]].metrics].match)]_vars

\* a batch of two pairs has returned with no run open before or after it,
\* and a batch of no pair has been evaluated in another behaviour
C27_Witness ==
    /\ last.op = "evaluate_batch"
    /\ last.error = "none"
    /\ Len(last.args.pairs) = 2
    /\ sink.open = 0
    /\ sink.log = PairCalls \o PairCalls \o <<"log_batch_evaluation">>

(***************************************************************************)
(* The batch summary against assert_idempotent.                            *)
(***************************************************************************)
\* the Episodes of a batch, in the order of its pairs
EpisodesOf(pairs) == [i \in 1..Len(pairs) |-> pairs[i][1]]

\* the batch just returned was over pairwise distinct Episodes that held no
\* execution before it: each holds exactly the one the batch recorded
FreshBatchReturned ==
    /\ last.op = "evaluate_batch"
    /\ last.error = "none"
    /\ last.args.pairs # <<>>
    /\ LET list == EpisodesOf(last.args.pairs)
       IN /\ \A i, j \in DOMAIN list : list[i] = list[j] => i = j
          /\ \A i \in DOMAIN list : Len(MetricsOf(list[i]).match) = 1

C26_TrackerNeedsMlflow ==
    /\ (last.op = "import evaluator.metrics" /\ ~mlflow.installed) =>
          last.error = "none"
    /\ last.op = "MetricsTracker" =>
          IF ~mlflow.installed THEN last.error = "RuntimeError"
          ELSE /\ last.error = "none"
               /\ mlflow.experiments # <<>>
               /\ mlflow.experiments[Len(mlflow.experiments)]
                     = last.args.experiment_name
               /\ mlflow.tracker = Some(last.args.experiment_name)
    /\ (last.op = "MetricsTracker.start_run" /\ last.args.nested
          /\ last.args.tags # Some("episode_id" :> "other")) =>
          /\ mlflow.runs # <<>>
          /\ LET run == mlflow.runs[Len(mlflow.runs)]
             IN /\ run.nested
                /\ run.tags["episode_id"] = last.args.episode_id
                /\ run.run_id = last.ret
          /\ last.error = "none"

\* C30 as claimed: whenever evaluate_episode records the match score 1.0,
\* the drift it records with it is 0.0.
C30_FullMatchHasNoDrift ==
    (last.op = "evaluate_episode" /\ last.error = "none") =>
        LET m == MetricsOf(last.slot)
            n == Len(m.match)
        IN m.match[n] = One => m.drift[n] = Zero

====
